---- MODULE Spec2Model ----
(***************************************************************************)
(* MyEdge Portfolio (src/worker.js): the per-user Durable Object store     *)
(* (UserDurableObject) and the request handlers of the Worker that drive   *)
(* it (handleGenerate, handleGetUser, handleRefresh, handleUpdateBookmarks)*)
(*                                                                         *)
(* JSON values are tagged records [kind, val]:                             *)
(*   undefined | null | bool | num | str | array | object                  *)
(* A string is a sequence of one-character strings, an array a sequence of *)
(* JSON values, an object a function from keys to JSON values.  A key that *)
(* holds undefined is dropped from an object: every object of the program  *)
(* modelled here crosses JSON.stringify before it is observed.             *)
(***************************************************************************)
EXTENDS Integers, Sequences, FiniteSets, TLC

VARIABLES
    storage,   \* DO name -> the value under the key 'userData' (Undefined: none)
    now,       \* the clock read by Date.now()
    req,       \* the last request a Durable Object served: [id, op, body, at]
    resp,      \* the response to it: [status, body]
    pre,       \* what that Durable Object stored before serving it
    pc,        \* Worker request slot -> position of the handler running in it
    loc,       \* Worker request slot -> the locals of that handler
    out,       \* the last response a handler of the Worker returned: [status, body]
    served,    \* how many requests a behaviour of StoreSpec has sent so far
    started,   \* how many requests the Worker has accepted
    generated, \* how many times generateAllAIContent has been called
    call       \* the last call of a fetcher or generator on its own: [fn, args, result]

vars == <<storage, now, req, resp, pre, pc, loc, out, served, started, generated, call>>

----------------------------------------------------------------------------
(* Bounds of the model *)

MaxStoreOps == 3    \* requests one Durable Object serves in a behaviour of StoreSpec
MaxRequests == 2    \* requests the Worker accepts in a behaviour of Spec
MaxNews == 3        \* items of a list of news deduplicated on its own

----------------------------------------------------------------------------
(* JSON values *)

Undefined == [kind |-> "undefined", val |-> 0]
Null == [kind |-> "null", val |-> 0]
Bool(b) == [kind |-> "bool", val |-> b]
Num(n) == [kind |-> "num", val |-> n]
Str(s) == [kind |-> "str", val |-> s]
Arr(s) == [kind |-> "array", val |-> s]

\* An object literal: keys whose value is undefined do not survive JSON.
Obj(f) ==
    [kind |-> "object",
     val |-> [k \in {x \in DOMAIN f : f[x].kind # "undefined"} |-> f[k]]]

EmptyObj == Obj(<<>>)

\* JavaScript truthiness: !v is true of undefined, null, false, 0 and ''.
Truthy(v) ==
    CASE v.kind = "undefined" -> FALSE
      [] v.kind = "null" -> FALSE
      [] v.kind = "bool" -> v.val
      [] v.kind = "num" -> v.val # 0
      [] v.kind = "str" -> v.val # <<>>
      [] OTHER -> TRUE

\* a || b
Or(a, b) == IF Truthy(a) THEN a ELSE b

\* o.k for a data key k, where o is neither null nor undefined.
Get(o, k) ==
    IF o.kind = "object" /\ k \in DOMAIN o.val THEN o.val[k] ELSE Undefined

\* o?.k
GetOpt(o, k) ==
    IF o.kind \in {"undefined", "null"} THEN Undefined ELSE Get(o, k)

Has(o, k) == o.kind = "object" /\ k \in DOMAIN o.val

\* obj with obj.k = v
With(o, k, v) ==
    Obj([x \in DOMAIN o.val \cup {k} |-> IF x = k THEN v ELSE o.val[x]])

Digits == <<"0", "1", "2", "3", "4", "5", "6", "7", "8", "9">>

Base36Digits ==
    Digits \o <<"a", "b", "c", "d", "e", "f", "g", "h", "i", "j", "k", "l", "m",
                "n", "o", "p", "q", "r", "s", "t", "u", "v", "w", "x", "y", "z">>

\* n.toString(radix) for a natural n, as a sequence of characters
RECURSIVE ToRadix(_, _)
ToRadix(n, radix) ==
    IF n < radix THEN <<Base36Digits[n + 1]>>
    ELSE ToRadix(n \div radix, radix) \o <<Base36Digits[(n % radix) + 1]>>

\* The property keys of an array or a string: '0', '1', ...
IdxKey(i) == LET s == ToRadix(i, 10) IN IF Len(s) = 1 THEN s[1] ELSE "big"
KeyIdx(k) == CHOOSE i \in 0..9 : Digits[i + 1] = k

\* { ...v }: the own enumerable properties of v
Spread(v) ==
    CASE v.kind = "object" -> v.val
      [] v.kind = "array" ->
            [k \in {IdxKey(i - 1) : i \in 1..Len(v.val)} |-> v.val[KeyIdx(k) + 1]]
      [] v.kind = "str" ->
            [k \in {IdxKey(i - 1) : i \in 1..Len(v.val)} |-> Str(<<v.val[KeyIdx(k) + 1]>>)]
      [] OTHER -> <<>>

----------------------------------------------------------------------------
(* Program constants *)

\* CONFIG, in milliseconds
CACHE_TTL_TEXT == 24 * 60 * 60 * 1000
CACHE_TTL_IMAGE == 7 * 24 * 60 * 60 * 1000
CACHE_TTL_NEWS == 2 * 60 * 60 * 1000
CACHE_TTL_WEATHER == 30 * 60 * 1000

DEFAULT_CITY == Str(<<"L", "o", "s", " ", "A", "n", "g", "e", "l", "e", "s">>)

\* the icon updateBookmarks gives a bookmark that has none
DEFAULT_ICON == Str(<<"l", "i", "n", "k">>)

----------------------------------------------------------------------------
(* UserDurableObject: each handler maps what the object stores and a parsed *)
(* request body to what it stores afterwards and its response.  threw: the  *)
(* handler raised before its storage.put, and fetch's catch answers 500.    *)

Response(status, body) == [status |-> status, body |-> body]

Returned(data, status, body) ==
    [data |-> data, threw |-> FALSE, resp |-> Response(status, body)]

Threw(data) ==
    [data |-> data, threw |-> TRUE, resp |-> Response(0, Null)]

ErrorBody(msg) == Obj([error |-> Str(msg)])

USER_NOT_FOUND == <<"U", "s", "e", "r", " ", "n", "o", "t", " ", "f", "o", "u", "n", "d">>
TYPE_ERROR == <<"T", "y", "p", "e", "E", "r", "r", "o", "r">>

getData(data) ==
    IF ~Truthy(data)
    THEN Returned(data, 200, Obj([exists |-> Bool(FALSE)]))
    ELSE Returned(data, 200, Obj([exists |-> Bool(TRUE), data |-> data]))

setData(data, body, t) ==
    LET ts == Get(body, "timestamps")
        userData ==
            Obj([username |-> Get(body, "username"),
                 city |-> Or(Get(body, "city"), DEFAULT_CITY),
                 interests |-> Or(Get(body, "interests"), Arr(<<>>)),
                 userBio |-> Or(Get(body, "userBio"), Str(<<>>)),
                 slug |-> Get(body, "slug"),
                 github |-> Or(Get(body, "github"), Null),
                 repos |-> Or(Get(body, "repos"), Arr(<<>>)),
                 aiBio |-> Or(Get(body, "aiBio"), Null),
                 aiProjectDescriptions |-> Or(Get(body, "aiProjectDescriptions"), EmptyObj),
                 aiQuote |-> Or(Get(body, "aiQuote"), Null),
                 aiBackgroundUrl |-> Or(Get(body, "aiBackgroundUrl"), Null),
                 aiCardImageUrl |-> Or(Get(body, "aiCardImageUrl"), Null),
                 skills |-> Or(Get(body, "skills"), Arr(<<>>)),
                 bookmarks |-> Or(Get(body, "bookmarks"), Arr(<<>>)),
                 timestamps |->
                     Obj([created |-> Num(t),
                          updated |-> Num(t),
                          textGenerated |-> Or(GetOpt(ts, "textGenerated"), Num(t)),
                          imageGenerated |-> Or(GetOpt(ts, "imageGenerated"), Null),
                          newsUpdated |-> Or(GetOpt(ts, "newsUpdated"), Null),
                          weatherUpdated |-> Or(GetOpt(ts, "weatherUpdated"), Null)]),
                 cachedNews |-> Or(Get(body, "cachedNews"), Null),
                 cachedWeather |-> Or(Get(body, "cachedWeather"), Null)])
    IN Returned(userData, 200, Obj([success |-> Bool(TRUE), data |-> userData]))

\* a merge that replaces a nested object instead of merging into it
deepMerge_shallow(target, source) ==
    LET base == Spread(target)
        src == Spread(source)
    IN Obj([key \in DOMAIN base \cup DOMAIN src |->
              IF key \in DOMAIN src THEN src[key] ELSE base[key]])

RECURSIVE deepMerge(_, _)
deepMerge(target, source) ==
    LET base == Spread(target)
        src == Spread(source)
    IN Obj([key \in DOMAIN base \cup DOMAIN src |->
              IF key \in DOMAIN src
              THEN IF src[key].kind = "object"
                   THEN deepMerge(IF key \in DOMAIN base /\ Truthy(base[key])
                                  THEN base[key] ELSE EmptyObj,
                                  src[key])
                   ELSE src[key]
              ELSE base[key]])

\* obj.timestamps.updated = t, in a module (strict mode): a TypeError when
\* obj.timestamps is undefined, null or a primitive.  (An array would take the
\* property; no payload of the model makes timestamps an array.)
CanSetUpdated(obj) == Get(obj, "timestamps").kind \in {"object", "array"}

SetUpdated(obj, t) ==
    IF Get(obj, "timestamps").kind = "object"
    THEN With(obj, "timestamps", With(Get(obj, "timestamps"), "updated", Num(t)))
    ELSE obj

\* an update that creates the record it does not find
updateData_upsert(data, updates, t) ==
    LET merged == deepMerge(IF Truthy(data) THEN data ELSE EmptyObj, updates) IN
    IF ~CanSetUpdated(merged)
    THEN Threw(data)
    ELSE LET userData == SetUpdated(merged, t) IN
         Returned(userData, 200, Obj([success |-> Bool(TRUE), data |-> userData]))

updateData(data, updates, t) ==
    IF ~Truthy(data)
    THEN Returned(data, 404, ErrorBody(USER_NOT_FOUND))
    ELSE LET merged == deepMerge(data, updates) IN
         IF ~CanSetUpdated(merged)
         THEN Threw(data)
         ELSE LET userData == SetUpdated(merged, t) IN
              Returned(userData, 200, Obj([success |-> Bool(TRUE), data |-> userData]))

\* a delete that reports a missing record
deleteData_strict(data) ==
    IF ~Truthy(data)
    THEN Returned(data, 404, ErrorBody(USER_NOT_FOUND))
    ELSE Returned(Undefined, 200, Obj([success |-> Bool(TRUE)]))

deleteData(data) ==
    Returned(Undefined, 200, Obj([success |-> Bool(TRUE)]))

\* Date.now().toString(36) + index
GeneratedId(t, index) == Str(ToRadix(t, 36) \o ToRadix(index, 10))

\* the callback of bookmarks.map, for an element that is neither null nor undefined
\* a bookmark mapping that keeps the order the client sent
MapBookmark_keepOrder(bm, index, t) ==
    Obj([id |-> Or(Get(bm, "id"), GeneratedId(t, index)),
         name |-> Get(bm, "name"),
         url |-> Get(bm, "url"),
         icon |-> Or(Get(bm, "icon"), DEFAULT_ICON),
         order |-> Or(Get(bm, "order"), Num(index))])

MapBookmark(bm, index, t) ==
    Obj([id |-> Or(Get(bm, "id"), GeneratedId(t, index)),
         name |-> Get(bm, "name"),
         url |-> Get(bm, "url"),
         icon |-> Or(Get(bm, "icon"), DEFAULT_ICON),
         order |-> Num(index)])

\* a bookmark update that adds to the stored list instead of replacing it
updateBookmarks_append(data, body, t) ==
    IF ~Truthy(data)
    THEN Returned(data, 404, ErrorBody(USER_NOT_FOUND))
    ELSE LET list == Or(Get(body, "bookmarks"), Arr(<<>>)) IN
         IF list.kind # "array"
            \/ \E i \in 1..Len(list.val) : list.val[i].kind \in {"null", "undefined"}
         THEN Threw(data)
         ELSE LET old == Get(data, "bookmarks").val
                  all == old \o list.val
                  mapped == Arr([i \in 1..Len(all) |-> MapBookmark(all[i], i - 1, t)])
                  userData == SetUpdated(With(data, "bookmarks", mapped), t)
              IN Returned(userData, 200,
                          Obj([success |-> Bool(TRUE), bookmarks |-> mapped]))

updateBookmarks(data, body, t) ==
    IF ~Truthy(data)
    THEN Returned(data, 404, ErrorBody(USER_NOT_FOUND))
    ELSE LET list == Or(Get(body, "bookmarks"), Arr(<<>>)) IN
         IF list.kind # "array"
            \/ \E i \in 1..Len(list.val) : list.val[i].kind \in {"null", "undefined"}
         THEN Threw(data)
         ELSE LET mapped == Arr([i \in 1..Len(list.val) |->
                                    MapBookmark(list.val[i], i - 1, t)])
                  userData == SetUpdated(With(data, "bookmarks", mapped), t)
              IN Returned(userData, 200,
                          Obj([success |-> Bool(TRUE), bookmarks |-> mapped]))

\* UserDurableObject.fetch: the dispatch on the path and the catch
DoFetch(op, data, body, t) ==
    LET r == CASE op = "get" -> getData(data)
               [] op = "set" -> setData(data, body, t)
               [] op = "update" -> updateData(data, body, t)
               [] op = "delete" -> deleteData(data)
               [] op = "update-bookmarks" -> updateBookmarks(data, body, t)
    IN IF r.threw
       THEN [data |-> data, threw |-> FALSE,
             resp |-> Response(500, ErrorBody(TYPE_ERROR))]
       ELSE r

----------------------------------------------------------------------------
(* The Worker's side: identities, upstream results, getDefaultBookmarks     *)

UpperCase ==
    <<"A", "B", "C", "D", "E", "F", "G", "H", "I", "J", "K", "L", "M",
      "N", "O", "P", "Q", "R", "S", "T", "U", "V", "W", "X", "Y", "Z">>

\* s.toLowerCase(), per character
ToLowerCase(s) ==
    [i \in 1..Len(s) |->
        IF \E j \in 1..26 : UpperCase[j] = s[i]
        THEN Base36Digits[10 + (CHOOSE j \in 1..26 : UpperCase[j] = s[i])]
        ELSE s[i]]

\* GitHub usernames the requests name
Usernames == {<<"A", "b">>}

\* env.USER_DO.idFromName(username.toLowerCase()): one object per identity
DoNames == {ToLowerCase(u) : u \in Usernames}

getDefaultBookmarks ==
    Arr(<<
      Obj([id |-> Str(<<"1">>), name |-> Str(<<"G", "o", "o", "g", "l", "e">>),
           url |-> Str(<<"h", "t", "t", "p", "s", ":", "/", "/", "g", "o", "o", "g", "l", "e", ".", "c", "o", "m">>),
           icon |-> Str(<<"U+1F50D">>), order |-> Num(0)]),
      Obj([id |-> Str(<<"2">>), name |-> Str(<<"G", "i", "t", "H", "u", "b">>),
           url |-> Str(<<"h", "t", "t", "p", "s", ":", "/", "/", "g", "i", "t", "h", "u", "b", ".", "c", "o", "m">>),
           icon |-> Str(<<"U+1F419">>), order |-> Num(1)]),
      Obj([id |-> Str(<<"3">>), name |-> Str(<<"T", "w", "i", "t", "t", "e", "r">>),
           url |-> Str(<<"h", "t", "t", "p", "s", ":", "/", "/", "t", "w", "i", "t", "t", "e", "r", ".", "c", "o", "m">>),
           icon |-> Str(<<"U+1F426">>), order |-> Num(2)]),
      Obj([id |-> Str(<<"4">>), name |-> Str(<<"Y", "o", "u", "T", "u", "b", "e">>),
           url |-> Str(<<"h", "t", "t", "p", "s", ":", "/", "/", "y", "o", "u", "t", "u", "b", "e", ".", "c", "o", "m">>),
           icon |-> Str(<<"U+1F4FA">>), order |-> Num(3)])
    >>)

\* What the upstream collaborators return (their values are opaque here).
CityNY == Str(<<"N", "Y">>)
InterestsTech == Arr(<<Str(<<"T", "e", "c", "h">>)>>)
InterestsAI == Arr(<<Str(<<"A", "I">>)>>)
BioHi == Str(<<"h", "i">>)

GithubOk ==
    Obj([user |-> Obj([login |-> Str(<<"A", "b">>),
                       avatar_url |-> Str(<<"/", "a", "v", "a", "t", "a", "r">>)]),
         repos |-> Arr(<<Obj([name |-> Str(<<"r", "1">>)])>>)])

AiContentA ==
    Obj([bio |-> Str(<<"b", "i", "o", "A">>),
         projectDescriptions |-> Obj([r1 |-> Str(<<"d", "A">>)]),
         quote |-> Obj([text |-> Str(<<"q", "A">>), author |-> Str(<<"a">>)]),
         skills |-> Arr(<<Str(<<"J", "S">>)>>)])

AiContentB ==
    Obj([bio |-> Str(<<"b", "i", "o", "B">>),
         projectDescriptions |-> Obj([r2 |-> Str(<<"d", "B">>)]),
         quote |-> Obj([text |-> Str(<<"q", "B">>), author |-> Str(<<"b">>)]),
         skills |-> Arr(<<Str(<<"G", "o">>)>>)])

NewsItem(title) == Obj([title |-> Str(title), source |-> Str(<<"H", "N">>)])
NewsA == Arr(<<NewsItem(<<"n", "1">>)>>)
NewsB == Arr(<<NewsItem(<<"n", "2">>), NewsItem(<<"n", "3">>)>>)

WeatherXiaomi ==
    Obj([city |-> CityNY, temp |-> Num(20), feels |-> Num(19), humidity |-> Num(60),
         wind |-> Num(5), desc |-> Str(<<"U+6674">>), icon |-> Str(<<"U+2600">>),
         aqi |-> Num(40), source |-> Str(<<"x", "i", "a", "o", "m", "i">>)])
WeatherWttr ==
    Obj([city |-> CityNY, temp |-> Num(25), feels |-> Num(26), humidity |-> Num(40),
         wind |-> Num(8), desc |-> Str(<<"S", "u", "n", "n", "y">>), icon |-> Str(<<"U+2600">>),
         source |-> Str(<<"w", "t", "t", "r", ".", "i", "n">>)])

\* s.substring(start, end) for 0 <= start <= end
Substring(s, start, end) ==
    SubSeq(s, start + 1, IF end < Len(s) THEN end ELSE Len(s))

\* x.toString(36) for 0 <= x < 1, x given by the base-36 digits of its
\* fraction: "0" for zero, else "0." and the digits
FractionToString36(digits) == IF digits = <<>> THEN <<"0">> ELSE <<"0", ".">> \o digits

\* generateSlug: the lower-cased username, '-', and
\* Math.random().toString(36).substring(2, 8), random being the digits of
\* what Math.random() returned
generateSlug(username, random) ==
    Str(ToLowerCase(username) \o <<"-">> \o Substring(FractionToString36(random), 2, 8))

\* what Math.random() returns where the model does not look at the length
RandomSuffixes == {<<"k", "3", "x", "9", "q", "a">>, <<"z", "0", "m", "4", "b", "7">>}

\* the record handleGenerate posts to /set
GenerateBody(username, city, interests, userBio, slug, github, ai, news, weather, backgroundUrl, cardImageUrl, t) ==
    Obj([username |-> Str(username),
         city |-> Or(city, DEFAULT_CITY),
         interests |-> Or(interests, Arr(<<>>)),
         userBio |-> Or(userBio, Str(<<>>)),
         slug |-> slug,
         github |-> Get(github, "user"),
         repos |-> Get(github, "repos"),
         aiBio |-> Get(ai, "bio"),
         aiProjectDescriptions |-> Get(ai, "projectDescriptions"),
         aiQuote |-> Get(ai, "quote"),
         aiBackgroundUrl |-> backgroundUrl,
         aiCardImageUrl |-> cardImageUrl,
         skills |-> Get(ai, "skills"),
         bookmarks |-> getDefaultBookmarks,
         cachedNews |-> news,
         cachedWeather |-> weather,
         timestamps |->
             Obj([textGenerated |-> Num(t),
                  imageGenerated |-> IF Truthy(backgroundUrl) THEN Num(t) ELSE Null,
                  newsUpdated |-> Num(t),
                  weatherUpdated |-> Num(t)])])

----------------------------------------------------------------------------
(* Weather: the primary source (Xiaomi), the secondary (wttr.in), the default *)

\* s.trim()
RECURSIVE TrimStart(_)
TrimStart(s) == IF s # <<>> /\ Head(s) = " " THEN TrimStart(Tail(s)) ELSE s

RECURSIVE TrimEnd(_)
TrimEnd(s) == IF s # <<>> /\ s[Len(s)] = " " THEN TrimEnd(SubSeq(s, 1, Len(s) - 1)) ELSE s

Trim(s) == TrimEnd(TrimStart(s))

\* s.includes(sub)
Includes(s, sub) ==
    \E i \in 0..(Len(s) - Len(sub)) : SubSeq(s, i + 1, i + Len(sub)) = sub

\* the entries in Latin letters (one in Chinese characters neither contains nor
\* is contained in a name in Latin letters)
INTERNATIONAL_CITIES ==
    {<<"l", "o", "s", " ", "a", "n", "g", "e", "l", "e", "s">>,
     <<"l", "a">>,
     <<"n", "e", "w", " ", "y", "o", "r", "k">>,
     <<"n", "y", "c">>,
     <<"s", "a", "n", " ", "f", "r", "a", "n", "c", "i", "s", "c", "o">>,
     <<"s", "f">>,
     <<"s", "e", "a", "t", "t", "l", "e">>,
     <<"t", "o", "k", "y", "o">>,
     <<"l", "o", "n", "d", "o", "n">>,
     <<"p", "a", "r", "i", "s">>,
     <<"s", "i", "n", "g", "a", "p", "o", "r", "e">>,
     <<"s", "y", "d", "n", "e", "y">>,
     <<"t", "o", "r", "o", "n", "t", "o">>,
     <<"v", "a", "n", "c", "o", "u", "v", "e", "r">>,
     <<"b", "e", "r", "l", "i", "n">>,
     <<"d", "u", "b", "a", "i">>,
     <<"b", "a", "n", "g", "k", "o", "k">>,
     <<"s", "e", "o", "u", "l">>}

\* the entries of the table for the cities below
XIAOMI_CITY_IDS ==
    (<<"b", "e", "i", "j", "i", "n", "g">> :> "101010100") @@
    (<<"s", "h", "a", "n", "g", "h", "a", "i">> :> "101020100") @@
    (<<"l", "h", "a", "s", "a">> :> "101140101") @@
    (<<"l", "a", "s", "a">> :> "101140101") @@
    (<<"l", "a", "n", "z", "h", "o", "u">> :> "101160101") @@
    (<<"h", "o", "n", "g", "k", "o", "n", "g">> :> "101320101") @@
    (<<"h", "o", "n", "g", " ", "k", "o", "n", "g">> :> "101320101") @@
    (<<"h", "k">> :> "101320101")

\* what the Xiaomi endpoint does with a request, and what wttr.in does
XiaomiOutcomes == {"network_error", "not_ok", "no_current", "ok"}
WttrOutcomes == {"network_error", "not_ok", "no_current", "ok"}

\* fetchXiaomiWeather: [threw, value, queried], queried when the endpoint was fetched
fetchXiaomiWeather(city, xiaomi) ==
    LET cityLower == Trim(ToLowerCase(city))
        known == cityLower \in DOMAIN XIAOMI_CITY_IDS \/ Trim(city) \in DOMAIN XIAOMI_CITY_IDS
    IN IF ~known THEN [threw |-> FALSE, value |-> Null, queried |-> FALSE]
       ELSE CASE xiaomi = "network_error" -> [threw |-> TRUE, value |-> Undefined, queried |-> TRUE]
              [] xiaomi \in {"not_ok", "no_current"} -> [threw |-> FALSE, value |-> Null, queried |-> TRUE]
              [] OTHER -> [threw |-> FALSE, value |-> With(WeatherXiaomi, "city", Str(city)),
                           queried |-> TRUE]

isInternational(cityLower) ==
    \E c \in INTERNATIONAL_CITIES : Includes(cityLower, c) \/ Includes(c, cityLower)

\* the static default of fetchWeather
WeatherFallback(city) ==
    Obj([city |-> city, temp |-> Num(22), feels |-> Num(23), humidity |-> Num(50),
         wind |-> Num(10),
         desc |-> Str(<<"U+6570", "U+636E", "U+83B7", "U+53D6", "U+4E2D">>),
         icon |-> Str(<<"U+1F324", "U+FE0F">>),
         source |-> Str(<<"f", "a", "l", "l", "b", "a", "c", "k">>)])

\* a fetchWeather that asks the primary source whatever the city
fetchWeather_alwaysPrimary(city, xiaomi, wttr) ==
    IF city.kind # "str"
    THEN [threw |-> TRUE, value |-> Undefined, queried |-> <<>>]
    ELSE LET x == fetchXiaomiWeather(city.val, xiaomi)
             asked == IF x.queried THEN <<"xiaomi">> ELSE <<>>
         IN IF ~x.threw /\ Truthy(x.value)
            THEN [threw |-> FALSE, value |-> x.value, queried |-> asked]
            ELSE [threw |-> FALSE, queried |-> asked \o <<"wttr.in">>,
                  value |-> IF wttr = "ok" THEN WeatherWttr ELSE WeatherFallback(city)]

\* a fetchWeather that answers the default as soon as the primary source fails
fetchWeather_noSecondary(city, xiaomi, wttr) ==
    IF city.kind # "str"
    THEN [threw |-> TRUE, value |-> Undefined, queried |-> <<>>]
    ELSE LET intl == isInternational(Trim(ToLowerCase(city.val)))
             x == IF intl THEN [threw |-> FALSE, value |-> Null, queried |-> FALSE]
                  ELSE fetchXiaomiWeather(city.val, xiaomi)
             asked == IF x.queried THEN <<"xiaomi">> ELSE <<>>
         IN IF ~x.threw /\ Truthy(x.value)
            THEN [threw |-> FALSE, value |-> x.value, queried |-> asked]
            ELSE IF x.queried
                 THEN [threw |-> FALSE, queried |-> asked, value |-> WeatherFallback(city)]
                 ELSE [threw |-> FALSE, queried |-> asked \o <<"wttr.in">>,
                       value |-> IF wttr = "ok" THEN WeatherWttr ELSE WeatherFallback(city)]

\* fetchWeather(env, city): [threw, value, queried], queried the sources fetched
\* in order.  city.toLowerCase() throws for a city that is not a string.
fetchWeather(city, xiaomi, wttr) ==
    IF city.kind # "str"
    THEN [threw |-> TRUE, value |-> Undefined, queried |-> <<>>]
    ELSE LET intl == isInternational(Trim(ToLowerCase(city.val)))
             x == IF intl THEN [threw |-> FALSE, value |-> Null, queried |-> FALSE]
                  ELSE fetchXiaomiWeather(city.val, xiaomi)
             asked == IF x.queried THEN <<"xiaomi">> ELSE <<>>
         IN IF ~x.threw /\ Truthy(x.value)
            THEN [threw |-> FALSE, value |-> x.value, queried |-> asked]
            ELSE [threw |-> FALSE, queried |-> asked \o <<"wttr.in">>,
                  value |-> IF wttr = "ok" THEN WeatherWttr ELSE WeatherFallback(city)]

----------------------------------------------------------------------------
(* News: four sources, merged in a fixed order, deduplicated, cut to eight.  *)
(* A source's payload is the parsed JSON it answered, Null when the request  *)
(* or the parsing failed.                                                    *)

HACKER_NEWS == Str(<<"H", "a", "c", "k", "e", "r", " ", "N", "e", "w", "s">>)
DEV_TO == Str(<<"D", "e", "v", ".", "t", "o">>)
GITHUB_TRENDING == Str(<<"G", "i", "t", "H", "u", "b", " ", "T", "r", "e", "n", "d", "i", "n", "g">>)
YAHOO_FINANCE == Str(<<"Y", "a", "h", "o", "o", " ", "F", "i", "n", "a", "n", "c", "e">>)
CategoryTech == Str(<<"T", "e", "c", "h">>)
CategoryFinance == Str(<<"F", "i", "n", "a", "n", "c", "e">>)

\* fetchHackerNews: the stories that have a title; [] when anything throws
fetchHackerNews(stories) ==
    IF stories.kind # "array" THEN <<>>
    ELSE LET titled(st) == Truthy(st) /\ Truthy(Get(st, "title"))
             item(st) == Obj([title |-> Get(st, "title"), url |-> Get(st, "url"),
                              source |-> HACKER_NEWS, category |-> CategoryTech])
             kept == SelectSeq(stories.val, titled)
         IN [i \in 1..Len(kept) |-> item(kept[i])]

\* fetchDevToNews: every article, titled or not; [] when anything throws
fetchDevToNews(articles) ==
    IF articles.kind # "array"
       \/ \E i \in 1..Len(articles.val) : articles.val[i].kind \in {"null", "undefined"}
    THEN <<>>
    ELSE LET item(a) == Obj([title |-> Get(a, "title"), url |-> Get(a, "url"),
                             source |-> DEV_TO, category |-> CategoryTech])
         IN [i \in 1..Len(articles.val) |-> item(articles.val[i])]

\* fetchGitHubTrending: the title is built from the repository's names
fetchGitHubTrending(data) ==
    IF data.kind # "object" THEN <<>>
    ELSE LET items == Or(Get(data, "items"), Arr(<<>>))
             item(r) == Obj([title |-> Str(<<"U+1F525", " ">> \o Get(r, "full_name").val
                                           \o <<" ", "-", " ">> \o Get(r, "description").val),
                             url |-> Get(r, "html_url"),
                             source |-> GITHUB_TRENDING, category |-> CategoryTech])
         IN IF items.kind # "array" THEN <<>>
            ELSE [i \in 1..Len(items.val) |-> item(items.val[i])]

\* fetchFinanceNews: the first three items of a feed that answered 'ok'
fetchFinanceNews(data) ==
    IF data.kind # "object" \/ Get(data, "status") # Str(<<"o", "k">>) THEN <<>>
    ELSE LET items == Or(Get(data, "items"), Arr(<<>>))
             item(i) == Obj([title |-> Get(i, "title"), url |-> Get(i, "link"),
                             source |-> YAHOO_FINANCE, category |-> CategoryFinance])
         IN IF items.kind # "array" THEN <<>>
            ELSE [i \in 1..(IF Len(items.val) < 3 THEN Len(items.val) ELSE 3) |->
                     item(items.val[i])]

\* item.title.toLowerCase().substring(0, 50)
NewsKey(item) ==
    LET t == ToLowerCase(Get(item, "title").val)
    IN SubSeq(t, 1, IF Len(t) < 50 THEN Len(t) ELSE 50)

\* a deduplication by the title as it is written
deduplicateNews_exactTitle(news) ==
    IF \E i \in 1..Len(news) : Get(news[i], "title").kind # "str"
    THEN [threw |-> TRUE, value |-> <<>>]
    ELSE LET first(i) == \A j \in 1..(i - 1) : Get(news[j], "title") # Get(news[i], "title")
             kept == {i \in 1..Len(news) : first(i)}
             RECURSIVE pick(_)
             pick(i) == IF i > Len(news) THEN <<>>
                        ELSE (IF i \in kept THEN <<news[i]>> ELSE <<>>) \o pick(i + 1)
         IN [threw |-> FALSE, value |-> pick(1)]

\* a deduplication that keeps an item without a title instead of failing on it
deduplicateNews_lenient(news) ==
    LET titled == SelectSeq(news, LAMBDA item : Get(item, "title").kind = "str")
        first(i) == \A j \in 1..(i - 1) : NewsKey(titled[j]) # NewsKey(titled[i])
        kept == {i \in 1..Len(titled) : first(i)}
        RECURSIVE pick(_)
        pick(i) == IF i > Len(titled) THEN <<>>
                   ELSE (IF i \in kept THEN <<titled[i]>> ELSE <<>>) \o pick(i + 1)
    IN [threw |-> FALSE, value |-> pick(1)]

\* deduplicateNews: the first item of each key; throws on a title that is not a string
deduplicateNews(news) ==
    IF \E i \in 1..Len(news) : Get(news[i], "title").kind # "str"
    THEN [threw |-> TRUE, value |-> <<>>]
    ELSE LET first(i) == \A j \in 1..(i - 1) : NewsKey(news[j]) # NewsKey(news[i])
             kept == {i \in 1..Len(news) : first(i)}
             RECURSIVE pick(_)
             pick(i) == IF i > Len(news) THEN <<>>
                        ELSE (IF i \in kept THEN <<news[i]>> ELSE <<>>) \o pick(i + 1)
         IN [threw |-> FALSE, value |-> pick(1)]

\* interests.some(i => names.includes(i))
SomeInterest(interests, names) ==
    \E i \in 1..Len(interests.val) :
        interests.val[i].kind = "str" /\ interests.val[i].val \in names

\* an aggregation that a failing source aborts: the try ends at the first
\* source without an answer
fetchRealNews_abortsOnFailure(interests, hn, dev, gh, fin) ==
    LET hnAsked == SomeInterest(interests, {<<"T", "e", "c", "h">>, <<"A", "I">>, <<"S", "t", "a", "r", "t", "u", "p">>})
        devAsked == SomeInterest(interests, {<<"T", "e", "c", "h">>, <<"D", "e", "s", "i", "g", "n">>, <<"A", "I">>})
        ghAsked == SomeInterest(interests, {<<"T", "e", "c", "h">>})
        finAsked == SomeInterest(interests, {<<"F", "i", "n", "a", "n", "c", "e">>})
        hnLost == hnAsked /\ hn = Null
        devLost == hnLost \/ (devAsked /\ dev = Null)
        ghLost == devLost \/ (ghAsked /\ gh = Null)
        finLost == ghLost \/ (finAsked /\ fin = Null)
        allNews ==
            IF interests.kind # "array" THEN <<>>
            ELSE (IF hnAsked /\ ~hnLost THEN fetchHackerNews(hn) ELSE <<>>)
                 \o (IF devAsked /\ ~devLost THEN fetchDevToNews(dev) ELSE <<>>)
                 \o (IF ghAsked /\ ~ghLost THEN fetchGitHubTrending(gh) ELSE <<>>)
                 \o (IF finAsked /\ ~finLost THEN fetchFinanceNews(fin) ELSE <<>>)
        uniqueNews == deduplicateNews(allNews)
    IN IF uniqueNews.threw THEN [threw |-> TRUE, value |-> Undefined]
       ELSE [threw |-> FALSE,
             value |-> Arr(SubSeq(uniqueNews.value, 1,
                                  IF Len(uniqueNews.value) < 8 THEN Len(uniqueNews.value) ELSE 8))]

\* fetchRealNews(interests) over the payloads of the four sources:
\* [threw, value].  What throws inside the try leaves allNews as it is.
fetchRealNews(interests, hn, dev, gh, fin) ==
    LET allNews ==
            IF interests.kind # "array" THEN <<>>
            ELSE (IF SomeInterest(interests, {<<"T", "e", "c", "h">>, <<"A", "I">>, <<"S", "t", "a", "r", "t", "u", "p">>})
                  THEN fetchHackerNews(hn) ELSE <<>>)
                 \o (IF SomeInterest(interests, {<<"T", "e", "c", "h">>, <<"D", "e", "s", "i", "g", "n">>, <<"A", "I">>})
                     THEN fetchDevToNews(dev) ELSE <<>>)
                 \o (IF SomeInterest(interests, {<<"T", "e", "c", "h">>})
                     THEN fetchGitHubTrending(gh) ELSE <<>>)
                 \o (IF SomeInterest(interests, {<<"F", "i", "n", "a", "n", "c", "e">>})
                     THEN fetchFinanceNews(fin) ELSE <<>>)
        uniqueNews == deduplicateNews(allNews)
    IN IF uniqueNews.threw THEN [threw |-> TRUE, value |-> Undefined]
       ELSE [threw |-> FALSE,
             value |-> Arr(SubSeq(uniqueNews.value, 1,
                                  IF Len(uniqueNews.value) < 8 THEN Len(uniqueNews.value) ELSE 8))]

----------------------------------------------------------------------------
(* generateAIProjectDescriptions: one call of the model per repository *)

\* a string of the program as the key of an object
RECURSIVE KeyOf(_)
KeyOf(s) == IF s = <<>> THEN "" ELSE Head(s) \o KeyOf(Tail(s))

\* the templated description: a star and what the repository says of itself
FallbackDescription(repo) ==
    Str(<<"U+2B50", " ">>
        \o Or(Get(repo, "description"),
              Str(<<"U+4F18", "U+8D28", "U+5F00", "U+6E90", "U+9879", "U+76EE">>)).val)

\* what a call of ai.run may do: throw (Null), answer without text, answer text
DescribeOne(repo, answer) ==
    IF answer.kind # "object" THEN FallbackDescription(repo)
    ELSE LET text == Get(answer, "response")
         IN IF text.kind = "str" /\ Trim(text.val) # <<>>
            THEN Str(Trim(text.val))
            ELSE FallbackDescription(repo)

\* a generation that gives up on the batch when one call throws
generateAIProjectDescriptions_perBatch(repos, answers) ==
    LET ownRepos == SelectSeq(repos, LAMBDA r : ~Truthy(Get(r, "fork")))
        six == SubSeq(ownRepos, 1, IF Len(ownRepos) < 6 THEN Len(ownRepos) ELSE 6)
        failed == \E i \in 1..Len(six) : answers[i].kind # "object"
    IN Obj([name \in {KeyOf(Get(six[i], "name").val) : i \in 1..Len(six)} |->
              LET i == CHOOSE j \in 1..Len(six) : KeyOf(Get(six[j], "name").val) = name
              IN IF failed THEN FallbackDescription(six[i]) ELSE DescribeOne(six[i], answers[i])])

\* generateAIProjectDescriptions(ai, repos), answers[i] what the i-th call of
\* ai.run does: the descriptions by repository name
generateAIProjectDescriptions(repos, answers) ==
    LET ownRepos == SelectSeq(repos, LAMBDA r : ~Truthy(Get(r, "fork")))
        six == SubSeq(ownRepos, 1, IF Len(ownRepos) < 6 THEN Len(ownRepos) ELSE 6)
    IN Obj([name \in {KeyOf(Get(six[i], "name").val) : i \in 1..Len(six)} |->
              LET named(j) == KeyOf(Get(six[j], "name").val) = name
                  i == CHOOSE j \in 1..Len(six) :
                          named(j) /\ \A k \in (j + 1)..Len(six) : ~named(k)
              IN DescribeOne(six[i], answers[i])])

----------------------------------------------------------------------------
(* State *)

Procs == {"p1", "p2"}

\* Date.now(): milliseconds.  The clock starts past every cache window, as any
\* real clock reading is, and is read at these instants.
Epoch == 1000 * 1000 * 1000
ClockReadings ==
    {Epoch, Epoch + CACHE_TTL_WEATHER + 1}

NoLocals == [kind |-> "none"]

Init ==
    /\ storage = [id \in DoNames |-> Undefined]
    /\ now = Epoch
    /\ req = [id |-> CHOOSE id \in DoNames : TRUE, op |-> "none", body |-> Null, at |-> 0]
    /\ resp = Response(0, Null)
    /\ pre = Undefined
    /\ pc = [p \in Procs |-> "idle"]
    /\ loc = [p \in Procs |-> NoLocals]
    /\ out = Response(0, Null)
    /\ served = 0
    /\ started = 0
    /\ generated = 0
    /\ call = [fn |-> "none"]

\* Date.now() moves on between two events
Tick ==
    /\ \E t \in ClockReadings : t > now /\ now' = t
    /\ UNCHANGED <<storage, req, resp, pre, pc, loc, out, served, started, generated, call>>

\* doStub.fetch: the Durable Object named id serves one request, alone
DoCall(id, op, body) ==
    /\ storage' = [storage EXCEPT ![id] = DoFetch(op, storage[id], body, now).data]
    /\ resp' = DoFetch(op, storage[id], body, now).resp
    /\ req' = [id |-> id, op |-> op, body |-> body, at |-> now]
    /\ pre' = storage[id]

----------------------------------------------------------------------------
(* StoreSpec: one UserDurableObject under every request of bounded sets *)

SetBodies(t) ==
    {GenerateBody(u, Undefined, InterestsTech, Undefined,
                  generateSlug(u, <<"k", "3", "x", "9", "q", "a">>),
                  GithubOk, AiContentA, NewsA, WeatherXiaomi, Null, Null, t) :
        u \in Usernames}
    \cup {Obj([username |-> Str(u), slug |-> generateSlug(u, <<"s", "p", "a", "r", "s", "e">>)]) :
            u \in Usernames}

UpdatePayloads ==
    {Obj([city |-> CityNY]),
     Obj([city |-> CityNY, interests |-> InterestsAI, userBio |-> BioHi]),
     Obj([cachedWeather |-> Obj([temp |-> Num(30)])]),
     Obj([cachedWeather |-> WeatherWttr, timestamps |-> Obj([weatherUpdated |-> Num(2)])]),
     Obj([interests |-> Obj([a |-> Num(1)])]),
     Obj([timestamps |-> Obj([updated |-> Num(9)])]),
     Obj([timestamps |-> Null])}

BmNoId == Obj([name |-> Str(<<"a">>), url |-> Str(<<"u", "a">>), order |-> Num(5)])
BmWithId ==
    Obj([id |-> Str(<<"7">>), name |-> Str(<<"b">>), url |-> Str(<<"u", "b">>),
         icon |-> Str(<<"*">>), order |-> Num(0)])
\* an id a client sends that has the shape of a generated one
BmGenLikeId == Obj([id |-> GeneratedId(Epoch, 1), name |-> Str(<<"c">>), url |-> Str(<<"u", "c">>)])

BookmarkLists ==
    {<<BmNoId>>, <<BmWithId, BmNoId>>, <<BmNoId, BmNoId>>, <<BmGenLikeId, BmNoId>>}

\* with no bookmarks at all, with a list, with a string, with a null element
BookmarkBodies ==
    {Obj([bookmarks |-> Arr(l)]) : l \in BookmarkLists}
    \cup {EmptyObj, Obj([bookmarks |-> Str(<<"x">>)]), Obj([bookmarks |-> Arr(<<Null>>)])}

StoreGet(id) ==
    served < MaxStoreOps /\ DoCall(id, "get", Null) /\ served' = served + 1 /\ UNCHANGED <<call, now, pc, loc, out, started, generated>>

StoreSet(id, body) ==
    served < MaxStoreOps /\ DoCall(id, "set", body) /\ served' = served + 1 /\ UNCHANGED <<call, now, pc, loc, out, started, generated>>

StoreUpdate(id, updates) ==
    served < MaxStoreOps /\ DoCall(id, "update", updates) /\ served' = served + 1 /\ UNCHANGED <<call, now, pc, loc, out, started, generated>>

StoreDelete(id) ==
    served < MaxStoreOps /\ DoCall(id, "delete", Null) /\ served' = served + 1 /\ UNCHANGED <<call, now, pc, loc, out, started, generated>>

StoreUpdateBookmarks(id, body) ==
    served < MaxStoreOps /\ DoCall(id, "update-bookmarks", body) /\ served' = served + 1 /\ UNCHANGED <<call, now, pc, loc, out, started, generated>>

StoreNext ==
    \/ Tick
    \/ \E id \in DoNames : StoreGet(id)
    \/ \E id \in DoNames, body \in SetBodies(now) : StoreSet(id, body)
    \/ \E id \in DoNames, updates \in UpdatePayloads : StoreUpdate(id, updates)
    \/ \E id \in DoNames : StoreDelete(id)
    \/ \E id \in DoNames, body \in BookmarkBodies : StoreUpdateBookmarks(id, body)

StoreSpec == Init /\ [][StoreNext]_vars

----------------------------------------------------------------------------
(* FetchSpec: the fetchers and the description generator, each called on its *)
(* own with every combination of bounded inputs                              *)

WeatherCities ==
    {Str(<<"B", "e", "i", "j", "i", "n", "g">>), Str(<<" ", "b", "e", "i", "j", "i", "n", "g", " ">>), Str(<<"L", "a", "n", "z", "h", "o", "u">>), Str(<<"l", "a", "s", "a">>), Str(<<"h", "k">>), Str(<<"O", "s", "l", "o">>),
     Str(<<"T", "o", "k", "y", "o">>), DEFAULT_CITY, CityNY, Str(<<>>), Num(5), Arr(<<>>)}

Story(title) == Obj([title |-> Str(title), url |-> Str(<<"u">> \o title)])
Untitled == Obj([url |-> Str(<<"u", "0">>)])

NewsInterests ==
    {InterestsTech, InterestsAI, Arr(<<Str(<<"F", "i", "n", "a", "n", "c", "e">>)>>), Arr(<<Str(<<"D", "e", "s", "i", "g", "n">>)>>), Arr(<<>>),
     Obj([a |-> Num(1)]), Arr(<<Str(<<"S", "t", "a", "r", "t", "u", "p">>)>>),
     Arr(<<Str(<<"M", "u", "s", "i", "c">>)>>),
     Arr(<<Str(<<"F", "i", "n", "a", "n", "c", "e">>), Str(<<"T", "e", "c", "h">>)>>)}
\* the five top stories and the four articles the sources are asked for
FiveStories == Arr([i \in 1..5 |-> Story(<<"h", <<"1", "2", "3", "4", "5">>[i]>>)])
FourArticles == Arr([i \in 1..4 |-> Story(<<"d", <<"1", "2", "3", "4">>[i]>>)])
HackerNewsPayloads == {Null, Arr(<<Story(<<"n", "1">>)>>), Arr(<<Story(<<"n", "1">>), Untitled>>), FiveStories}
DevToPayloads == {Null, Arr(<<Story(<<"N", "1">>), Story(<<"n", "2">>)>>), Arr(<<Untitled>>), FourArticles}
GitHubTrendingPayloads ==
    {Null,
     Obj([items |-> Arr(<<Obj([full_name |-> Str(<<"o", "/", "r">>),
                               description |-> Str(<<"d">>),
                               html_url |-> Str(<<"u", "r">>)])>>)])}
FinancePayloads ==
    {Null, Obj([status |-> Str(<<"e", "r", "r", "o", "r">>)]),
     Obj([status |-> Str(<<"o", "k">>),
          items |-> Arr(<<Obj([title |-> Str(<<"f", "1">>), link |-> Str(<<"u", "f">>)])>>)]),
     Obj([status |-> Str(<<"o", "k">>), items |-> Arr(<<Obj([link |-> Str(<<"u", "f">>)])>>)])}

Repo(name, description) == Obj([name |-> Str(name), description |-> description])
RepoLists ==
    {<<Repo(<<"r", "1">>, Str(<<"d", "1">>)), Repo(<<"r", "2">>, Null)>>,
     <<Repo(<<"r", "1">>, Str(<<"d", "1">>)),
       With(Repo(<<"r", "3">>, Str(<<"d", "3">>)), "fork", Bool(TRUE)),
       Repo(<<"r", "2">>, Str(<<"d", "2">>))>>}
AiAnswers ==
    {Null, EmptyObj, Obj([response |-> Str(<<" ", "g", "1", " ">>)]),
     Obj([response |-> Str(<<"g", "2">>)])}

\* titles that differ in case only, and titles of 51 characters that differ
\* in the last one
LongTitle(last) == [i \in 1..50 |-> "x"] \o <<last>>
NewsItems ==
    {Story(<<"n", "1">>), Story(<<"N", "1">>), Story(<<"n", "2">>),
     Story(LongTitle("a")), Story(LongTitle("b")), Untitled}
NewsLists == UNION {[1..n -> NewsItems] : n \in 0..MaxNews}

CallDeduplicateNews(news) ==
    /\ call.fn = "none"
    /\ call' = [fn |-> "deduplicateNews", args |-> [news |-> news],
                result |-> deduplicateNews(news)]
    /\ UNCHANGED <<storage, now, req, resp, pre, pc, loc, out, served, started, generated>>

CallFetchWeather(city, xiaomi, wttr) ==
    /\ call.fn = "none"
    /\ call' = [fn |-> "fetchWeather",
                args |-> [city |-> city, xiaomi |-> xiaomi, wttr |-> wttr],
                result |-> fetchWeather(city, xiaomi, wttr)]
    /\ UNCHANGED <<storage, now, req, resp, pre, pc, loc, out, served, started, generated>>

CallFetchRealNews(interests, hn, dev, gh, fin) ==
    /\ call.fn = "none"
    /\ call' = [fn |-> "fetchRealNews",
                args |-> [interests |-> interests, hn |-> hn, dev |-> dev, gh |-> gh,
                          fin |-> fin],
                result |-> fetchRealNews(interests, hn, dev, gh, fin)]
    /\ UNCHANGED <<storage, now, req, resp, pre, pc, loc, out, served, started, generated>>

CallGenerateAIProjectDescriptions(repos, answers) ==
    /\ call.fn = "none"
    /\ call' = [fn |-> "generateAIProjectDescriptions",
                args |-> [repos |-> repos, answers |-> answers],
                result |-> generateAIProjectDescriptions(repos, answers)]
    /\ UNCHANGED <<storage, now, req, resp, pre, pc, loc, out, served, started, generated>>

FetchNext ==
    \/ \E city \in WeatherCities, xiaomi \in XiaomiOutcomes, wttr \in WttrOutcomes :
          CallFetchWeather(city, xiaomi, wttr)
    \/ \E interests \in NewsInterests, hn \in HackerNewsPayloads, dev \in DevToPayloads,
          gh \in GitHubTrendingPayloads, fin \in FinancePayloads :
          CallFetchRealNews(interests, hn, dev, gh, fin)
    \/ \E repos \in RepoLists, answers \in [1..2 -> AiAnswers] :
          CallGenerateAIProjectDescriptions(repos, answers)
    \/ \E news \in NewsLists : CallDeduplicateNews(news)

FetchSpec == Init /\ [][FetchNext]_vars

----------------------------------------------------------------------------
(* Spec: the Worker's handlers, two at a time, over the Durable Objects.    *)
(* A handler takes one step per doStub.fetch it awaits; what it awaits from *)
(* its upstream collaborators in between is one step that picks an outcome. *)

JsTrue == Bool(TRUE)
JsFalse == Bool(FALSE)

\* s.split(sep)[0]
RECURSIVE SplitFirst(_, _)
SplitFirst(s, sep) ==
    IF s = <<>> \/ Head(s) = sep THEN <<>> ELSE <<Head(s)>> \o SplitFirst(Tail(s), sep)

\* a - b >= c in the place of a - b > c
AgeExceeds_inclusive(t, stamp, window) ==
    CASE stamp.kind = "num" -> t - stamp.val >= window
      [] stamp.kind = "null" -> t >= window
      [] OTHER -> FALSE

\* a - b > c on JavaScript numbers: null counts 0, a number itself, and
\* anything else makes the difference NaN, which is greater than nothing
AgeExceeds(t, stamp, window) ==
    CASE stamp.kind = "num" -> t - stamp.val > window
      [] stamp.kind = "null" -> t > window
      [] OTHER -> FALSE

\* a request the Worker accepts runs in the first slot that is free
SlotOrder == <<"p1", "p2">>
Free(p) ==
    /\ pc[p] = "idle"
    /\ \A i, j \in 1..Len(SlotOrder) : (SlotOrder[j] = p /\ i < j) => pc[SlotOrder[i]] # "idle"

Finish(p, response) ==
    /\ pc' = [pc EXCEPT ![p] = "idle"]
    /\ loc' = [loc EXCEPT ![p] = NoLocals]
    /\ out' = response

Goto(p, label, locals) ==
    /\ pc' = [pc EXCEPT ![p] = label]
    /\ loc' = [loc EXCEPT ![p] = locals]
    /\ UNCHANGED out

\* the Worker's fetch catching what a handler threw
WorkerError == Response(500, ErrorBody(<<"E", "r", "r", "o", "r">>))

(* handleGenerate *)

GenerateRequests ==
    {[username |-> u, city |-> c, interests |-> InterestsTech, userBio |-> Undefined] :
        u \in Usernames, c \in {Undefined, CityNY}}

\* what the upstream sources answer during one request: all of them, none of
\* them, or all with an article of Dev.to that has no title
FetchedAll ==
    [xiaomi |-> "ok", wttr |-> "ok",
     hn |-> Arr(<<Story(<<"n", "1">>)>>),
     dev |-> Arr(<<Story(<<"N", "1">>), Story(<<"n", "2">>)>>),
     gh |-> Null, fin |-> Null]
FetchedNothing ==
    [xiaomi |-> "network_error", wttr |-> "network_error",
     hn |-> Null, dev |-> Null, gh |-> Null, fin |-> Null]
FetchedUntitled ==
    [xiaomi |-> "ok", wttr |-> "ok",
     hn |-> Arr(<<Story(<<"n", "1">>)>>), dev |-> Arr(<<Untitled>>),
     gh |-> Null, fin |-> Null]
FetchOutcomes == {FetchedAll, FetchedNothing, FetchedUntitled}

WeatherOf(city, fetched) == fetchWeather(city, fetched.xiaomi, fetched.wttr)
NewsOf(interests, fetched) ==
    fetchRealNews(interests, fetched.hn, fetched.dev, fetched.gh, fetched.fin)

BackgroundUrl == Str(<<"/", "a", "s", "s", "e", "t", "s", "/", "b", "g">>)
CardImageUrl == Str(<<"/", "a", "s", "s", "e", "t", "s", "/", "c", "a", "r", "d">>)

\* generateAndStoreImages: both images, or the background only, or neither;
\* the avatar stands in for a card that was not generated.  "unbound": the
\* caller found no AI or R2 binding and did not call it.
generateAndStoreImages(user, images) ==
    LET avatar == IF Truthy(GetOpt(user, "avatar_url")) THEN Get(user, "avatar_url") ELSE Null
    IN CASE images = "ok" -> [backgroundUrl |-> BackgroundUrl, cardImageUrl |-> CardImageUrl]
         [] images = "card_failed" -> [backgroundUrl |-> BackgroundUrl, cardImageUrl |-> avatar]
         [] images = "background_failed" -> [backgroundUrl |-> Null, cardImageUrl |-> avatar]
         [] OTHER -> [backgroundUrl |-> Null, cardImageUrl |-> Null]

\* Math.random() returning 0.5, which is 0.i in base 36
RandomHalf == <<"i">>

\* what handleGenerate awaits from GitHub, the AI binding, the news and weather
\* sources and the image generation: a failure of the profile fetch, a failure
\* of the generation, or the lot with the suffix Math.random() gave the slug
GenerateOutcomes ==
    {[kind |-> "github_failed"], [kind |-> "ai_failed"]}
    \cup {[kind |-> "ok", random |-> r, fetched |-> FetchedAll,
            images |-> IF r = <<"k", "3", "x", "9", "q", "a">> THEN "unbound" ELSE "ok"] :
            r \in RandomSuffixes}
    \cup {[kind |-> "ok", random |-> RandomHalf,
            fetched |-> FetchedNothing, images |-> "background_failed"],
           [kind |-> "ok", random |-> <<"k", "3", "x", "9", "q", "a">>,
            fetched |-> FetchedUntitled, images |-> "unbound"]}

\* an update that also sends a slug made anew for the name
GenerateUpdatePayload_reslug(request) ==
    Obj([city |-> request.city, interests |-> request.interests,
         userBio |-> request.userBio,
         slug |-> generateSlug(request.username, <<"n", "e", "w", "0", "0", "0">>)])

\* the body of the /update handleGenerate sends for a record that exists
\* (JSON.stringify drops what the request left undefined)
GenerateUpdatePayload(request) ==
    Obj([city |-> request.city, interests |-> request.interests,
         userBio |-> request.userBio])

GenerateStart(p, request) ==
    /\ Free(p)
    /\ started < MaxRequests
    /\ started' = started + 1
    /\ DoCall(ToLowerCase(request.username), "get", Null)
    /\ Goto(p, IF Get(resp'.body, "exists") = JsTrue THEN "gen_update" ELSE "gen_collect",
            [kind |-> "generate", request |-> request])
    /\ UNCHANGED <<call, now, served, generated>>

GenerateUpdate(p) ==
    /\ pc[p] = "gen_update"
    /\ DoCall(ToLowerCase(loc[p].request.username), "update",
              GenerateUpdatePayload(loc[p].request))
    /\ Finish(p, IF ~Has(resp'.body, "data")
                 THEN WorkerError
                 ELSE Response(200, Obj([isNew |-> JsFalse,
                                         slug |-> Get(Get(resp'.body, "data"), "slug"),
                                         data |-> Get(resp'.body, "data")])))
    /\ UNCHANGED <<call, now, served, started, generated>>

\* a handleGenerate that stores what it has when the profile or the generation failed
GenerateCollect_storesOnFailure(p, outcome) ==
    /\ pc[p] = "gen_collect"
    /\ generated' = IF outcome.kind = "github_failed" THEN generated ELSE generated + 1
    /\ LET request == loc[p].request
           failed == outcome.kind # "ok"
           fetched == IF failed THEN FetchedAll ELSE outcome.fetched
           news == NewsOf(request.interests, fetched)
           weather == WeatherOf(Or(request.city, DEFAULT_CITY), fetched)
       IN IF news.threw \/ weather.threw
          THEN Finish(p, WorkerError)
          ELSE Goto(p, "gen_set",
                    [kind |-> "generate", request |-> request,
                     body |-> GenerateBody(request.username, request.city,
                                           request.interests, request.userBio,
                                           generateSlug(request.username, <<"k", "3", "x", "9", "q", "a">>),
                                           IF outcome.kind = "github_failed" THEN EmptyObj ELSE GithubOk,
                                           IF failed THEN EmptyObj ELSE AiContentA,
                                           news.value, weather.value, Null, Null, now)])
    /\ UNCHANGED <<storage, now, req, resp, pre, served, started, call>>

GenerateCollect(p, outcome) ==
    /\ pc[p] = "gen_collect"
    /\ generated' = IF outcome.kind = "github_failed" THEN generated ELSE generated + 1
    /\ IF outcome.kind # "ok"
       THEN Finish(p, WorkerError)
       ELSE LET request == loc[p].request
                news == NewsOf(request.interests, outcome.fetched)
                weather == WeatherOf(Or(request.city, DEFAULT_CITY), outcome.fetched)
                imageResults == generateAndStoreImages(Get(GithubOk, "user"), outcome.images)
            IN IF news.threw \/ weather.threw
               THEN Finish(p, WorkerError)
               ELSE Goto(p, "gen_set",
                         [kind |-> "generate", request |-> request,
                          body |-> GenerateBody(request.username, request.city,
                                                request.interests, request.userBio,
                                                generateSlug(request.username, outcome.random),
                                                GithubOk, AiContentA, news.value, weather.value,
                                                imageResults.backgroundUrl,
                                                imageResults.cardImageUrl, now)])
    /\ UNCHANGED <<storage, now, req, resp, pre, served, started, call>>

GenerateSet(p) ==
    /\ pc[p] = "gen_set"
    /\ DoCall(ToLowerCase(loc[p].request.username), "set", loc[p].body)
    /\ Finish(p, Response(200, Obj([isNew |-> JsTrue,
                                    slug |-> Get(loc[p].body, "slug"),
                                    data |-> loc[p].body])))
    /\ UNCHANGED <<call, now, served, started, generated>>

(* handleGetUser *)

ReadSlugs == {generateSlug(u, r).val : u \in Usernames, r \in RandomSuffixes}

WeatherStale(userData, t) ==
    \/ ~Truthy(Get(userData, "cachedWeather"))
    \/ AgeExceeds(t, Get(Get(userData, "timestamps"), "weatherUpdated"), CACHE_TTL_WEATHER)

NewsStale(userData, t) ==
    \/ ~Truthy(Get(userData, "cachedNews"))
    \/ AgeExceeds(t, Get(Get(userData, "timestamps"), "newsUpdated"), CACHE_TTL_NEWS)

\* the updates handleGetUser collects: each stale category with its timestamp
ReadUpdates(userData, t, weather, news) ==
    LET u1 == IF WeatherStale(userData, t)
              THEN Obj([cachedWeather |-> weather,
                        timestamps |-> Obj([weatherUpdated |-> Num(t)])])
              ELSE EmptyObj
    IN IF NewsStale(userData, t)
       THEN With(With(u1, "cachedNews", news), "timestamps",
                 With(Or(Get(u1, "timestamps"), EmptyObj), "newsUpdated", Num(t)))
       ELSE u1

\* Object.assign(target, source)
ObjectAssign(target, source) ==
    Obj([k \in DOMAIN target.val \cup DOMAIN source.val |->
            IF k \in DOMAIN source.val THEN source.val[k] ELSE target.val[k]])

\* the part of handleGetUser from the record it loaded to the update it is
\* about to send: [kind, updates], kind "threw" when a fetcher threw, "fresh"
\* when nothing was stale
Refetch(userData, t, fetched) ==
    LET weather == IF WeatherStale(userData, t)
                   THEN WeatherOf(Get(userData, "city"), fetched)
                   ELSE [threw |-> FALSE, value |-> Undefined]
        news == IF NewsStale(userData, t)
                THEN NewsOf(Get(userData, "interests"), fetched)
                ELSE [threw |-> FALSE, value |-> Undefined]
        updates == ReadUpdates(userData, t, weather.value, news.value)
    IN IF weather.threw \/ news.threw THEN [kind |-> "threw", updates |-> EmptyObj]
       ELSE IF DOMAIN updates.val = {} THEN [kind |-> "fresh", updates |-> EmptyObj]
       ELSE [kind |-> "update", updates |-> updates]

ReadStart(p, slug, fetched) ==
    /\ Free(p)
    /\ started < MaxRequests
    /\ started' = started + 1
    /\ ToLowerCase(SplitFirst(slug, "-")) \in DOMAIN storage
    /\ DoCall(ToLowerCase(SplitFirst(slug, "-")), "get", Null)
    /\ IF Get(resp'.body, "exists") # JsTrue
          \/ Get(Get(resp'.body, "data"), "slug") # Str(slug)
       THEN /\ Finish(p, Response(404, ErrorBody(USER_NOT_FOUND)))
            /\ call' = [fn |-> "handleGetUser",
                        args |-> [slug |-> slug, at |-> now, userData |-> Undefined],
                        result |-> [kind |-> "not_found", updates |-> EmptyObj]]
       ELSE LET userData == Get(resp'.body, "data")
                refetch == Refetch(userData, now, fetched)
            IN /\ call' = [fn |-> "handleGetUser",
                           args |-> [slug |-> slug, at |-> now, userData |-> userData],
                           result |-> refetch]
               /\ CASE refetch.kind = "threw" -> Finish(p, WorkerError)
                    [] refetch.kind = "fresh" ->
                          Finish(p, Response(200, Obj([data |-> userData])))
                    [] OTHER ->
                          Goto(p, "read_update",
                               [kind |-> "read", slug |-> slug, userData |-> userData,
                                updates |-> refetch.updates])
    /\ UNCHANGED <<now, served, generated>>

\* a handleGetUser that writes the record it loaded back as a whole
ReadUpdate_setsRecord(p) ==
    /\ pc[p] = "read_update"
    /\ DoCall(ToLowerCase(SplitFirst(loc[p].slug, "-")), "set",
              ObjectAssign(loc[p].userData, loc[p].updates))
    /\ Finish(p, Response(200, Obj([data |-> ObjectAssign(loc[p].userData, loc[p].updates)])))
    /\ UNCHANGED <<call, now, served, started, generated>>

ReadUpdate(p) ==
    /\ pc[p] = "read_update"
    /\ DoCall(ToLowerCase(SplitFirst(loc[p].slug, "-")), "update", loc[p].updates)
    /\ Finish(p, Response(200, Obj([data |-> ObjectAssign(loc[p].userData, loc[p].updates)])))
    /\ UNCHANGED <<call, now, served, started, generated>>

(* handleRefresh *)

RefreshRequests ==
    {[username |-> u, forceAll |-> f] : u \in Usernames, f \in BOOLEAN}

RefreshOutcomes ==
    {[kind |-> "github_failed"], [kind |-> "ai_failed"],
     [kind |-> "ok", fetched |-> FetchedAll, images |-> "ok"],
     [kind |-> "ok", fetched |-> FetchedAll, images |-> "unbound"],
     [kind |-> "ok", fetched |-> FetchedNothing, images |-> "background_failed"],
     [kind |-> "ok", fetched |-> FetchedUntitled, images |-> "ok"]}

\* updates of a forced refresh that leave imageGenerated out
RefreshUpdates_noImageStamp(forceAll, github, ai, news, weather, backgroundUrl, cardImageUrl, t) ==
    LET updates ==
            Obj([github |-> Get(github, "user"),
                 repos |-> Get(github, "repos"),
                 aiBio |-> Get(ai, "bio"),
                 aiProjectDescriptions |-> Get(ai, "projectDescriptions"),
                 aiQuote |-> Get(ai, "quote"),
                 skills |-> Get(ai, "skills"),
                 cachedNews |-> news,
                 cachedWeather |-> weather,
                 timestamps |-> Obj([textGenerated |-> Num(t),
                                     newsUpdated |-> Num(t),
                                     weatherUpdated |-> Num(t)])])
    IN IF forceAll
       THEN With(With(updates, "aiBackgroundUrl", backgroundUrl), "aiCardImageUrl", cardImageUrl)
       ELSE updates

\* the updates handleRefresh sends; forceAll stands for the whole test
\* forceAll && env.AI && env.R2_BUCKET
RefreshUpdates(forceAll, github, ai, news, weather, backgroundUrl, cardImageUrl, t) ==
    LET updates ==
            Obj([github |-> Get(github, "user"),
                 repos |-> Get(github, "repos"),
                 aiBio |-> Get(ai, "bio"),
                 aiProjectDescriptions |-> Get(ai, "projectDescriptions"),
                 aiQuote |-> Get(ai, "quote"),
                 skills |-> Get(ai, "skills"),
                 cachedNews |-> news,
                 cachedWeather |-> weather,
                 timestamps |-> Obj([textGenerated |-> Num(t),
                                     newsUpdated |-> Num(t),
                                     weatherUpdated |-> Num(t)])])
    IN IF forceAll
       THEN With(With(With(updates, "aiBackgroundUrl", backgroundUrl),
                      "aiCardImageUrl", cardImageUrl),
                 "timestamps", With(Get(updates, "timestamps"), "imageGenerated", Num(t)))
       ELSE updates

RefreshStart(p, request) ==
    /\ Free(p)
    /\ started < MaxRequests
    /\ started' = started + 1
    /\ DoCall(ToLowerCase(request.username), "get", Null)
    /\ IF Get(resp'.body, "exists") # JsTrue
       THEN Finish(p, Response(404, ErrorBody(USER_NOT_FOUND)))
       ELSE Goto(p, "refresh_collect",
                 [kind |-> "refresh", request |-> request,
                  userData |-> Get(resp'.body, "data")])
    /\ UNCHANGED <<call, now, served, generated>>

\* a handleRefresh that sends what it has when the profile or the generation failed
RefreshCollect_updatesOnFailure(p, outcome) ==
    /\ pc[p] = "refresh_collect"
    /\ generated' = IF outcome.kind = "github_failed" THEN generated ELSE generated + 1
    /\ LET failed == outcome.kind # "ok"
           fetched == IF failed THEN FetchedAll ELSE outcome.fetched
           news == NewsOf(Get(loc[p].userData, "interests"), fetched)
           weather == WeatherOf(Get(loc[p].userData, "city"), fetched)
       IN IF news.threw \/ weather.threw
          THEN Finish(p, WorkerError)
          ELSE Goto(p, "refresh_update",
                    [kind |-> "refresh", request |-> loc[p].request,
                     updates |-> RefreshUpdates(FALSE,
                                                IF outcome.kind = "github_failed" THEN Obj([user |-> Null, repos |-> Null]) ELSE GithubOk,
                                                IF failed THEN Obj([bio |-> Null, quote |-> Null]) ELSE AiContentB,
                                                news.value, weather.value, Null, Null, now)])
    /\ UNCHANGED <<storage, now, req, resp, pre, served, started, call>>

RefreshCollect(p, outcome) ==
    /\ pc[p] = "refresh_collect"
    /\ generated' = IF outcome.kind = "github_failed" THEN generated ELSE generated + 1
    /\ IF outcome.kind # "ok"
       THEN Finish(p, WorkerError)
       ELSE LET news == NewsOf(Get(loc[p].userData, "interests"), outcome.fetched)
                weather == WeatherOf(Get(loc[p].userData, "city"), outcome.fetched)
                imageResults == generateAndStoreImages(Get(GithubOk, "user"), outcome.images)
            IN IF news.threw \/ weather.threw
               THEN Finish(p, WorkerError)
               ELSE Goto(p, "refresh_update",
                         [kind |-> "refresh", request |-> loc[p].request,
                          updates |-> RefreshUpdates(loc[p].request.forceAll
                                                        /\ outcome.images # "unbound",
                                                     GithubOk, AiContentB, news.value, weather.value,
                                                     imageResults.backgroundUrl,
                                                     imageResults.cardImageUrl, now)])
    /\ UNCHANGED <<storage, now, req, resp, pre, served, started, call>>

RefreshUpdate(p) ==
    /\ pc[p] = "refresh_update"
    /\ DoCall(ToLowerCase(loc[p].request.username), "update", loc[p].updates)
    /\ Goto(p, "refresh_reload", [kind |-> "refresh", request |-> loc[p].request])
    /\ UNCHANGED <<call, now, served, started, generated>>

\* a handleRefresh that sends a second /update where it reloads the record
RefreshReload_updatesAgain(p) ==
    /\ pc[p] = "refresh_reload"
    /\ DoCall(ToLowerCase(loc[p].request.username), "update", EmptyObj)
    /\ Finish(p, Response(200, Obj([success |-> JsTrue, data |-> Get(resp'.body, "data")])))
    /\ UNCHANGED <<call, now, served, started, generated>>

RefreshReload(p) ==
    /\ pc[p] = "refresh_reload"
    /\ DoCall(ToLowerCase(loc[p].request.username), "get", Null)
    /\ Finish(p, Response(200, Obj([success |-> JsTrue, data |-> Get(resp'.body, "data")])))
    /\ UNCHANGED <<call, now, served, started, generated>>

(* handleUpdateBookmarks: the Durable Object's response is the handler's *)

BookmarkRequests ==
    {[username |-> u, bookmarks |-> Arr(l)] :
        u \in Usernames, l \in {<<BmNoId, BmWithId>>}}

ReplaceBookmarks(p, request) ==
    /\ Free(p)
    /\ started < MaxRequests
    /\ started' = started + 1
    /\ DoCall(ToLowerCase(request.username), "update-bookmarks",
              Obj([bookmarks |-> request.bookmarks]))
    /\ Finish(p, resp')
    /\ UNCHANGED <<call, now, served, generated>>

\* /delete of a Durable Object (no route of the Worker leads to it)
Delete(id) ==
    /\ started < MaxRequests
    /\ started' = started + 1
    /\ DoCall(id, "delete", Null)
    /\ UNCHANGED <<call, now, served, pc, loc, out, generated>>

Next ==
    \/ Tick
    \/ \E p \in Procs, request \in GenerateRequests : GenerateStart(p, request)
    \/ \E p \in Procs : GenerateUpdate(p)
    \/ \E p \in Procs, outcome \in GenerateOutcomes : GenerateCollect(p, outcome)
    \/ \E p \in Procs : GenerateSet(p)
    \/ \E p \in Procs, slug \in ReadSlugs, fetched \in FetchOutcomes : ReadStart(p, slug, fetched)
    \/ \E p \in Procs : ReadUpdate(p)
    \/ \E p \in Procs, request \in RefreshRequests : RefreshStart(p, request)
    \/ \E p \in Procs, outcome \in RefreshOutcomes : RefreshCollect(p, outcome)
    \/ \E p \in Procs : RefreshUpdate(p)
    \/ \E p \in Procs : RefreshReload(p)
    \/ \E p \in Procs, request \in BookmarkRequests : ReplaceBookmarks(p, request)
    \/ \E id \in DoNames : Delete(id)

Spec == Init /\ [][Next]_vars

----------------------------------------------------------------------------
(* ReadSpec: the two readers of a record that exists, handleGetUser and     *)
(* handlePortfolioPage, one request at a time, as what was cached ages.      *)

\* the record handleGenerate left at Epoch, every source having answered
GeneratedRecord(username) ==
    LET user == Get(GithubOk, "user")
        imageResults == generateAndStoreImages(user, "ok")
    IN setData(Undefined,
               GenerateBody(username, Undefined, InterestsTech, Undefined,
                            generateSlug(username, <<"k", "3", "x", "9", "q", "a">>),
                            GithubOk, AiContentA,
                            NewsOf(InterestsTech, FetchedAll).value,
                            WeatherOf(DEFAULT_CITY, FetchedAll).value,
                            imageResults.backgroundUrl, imageResults.cardImageUrl, Epoch),
               Epoch).data

ReadInit ==
    /\ storage = [id \in DoNames |->
                    GeneratedRecord(CHOOSE u \in Usernames : ToLowerCase(u) = id)]
    /\ now = Epoch
    /\ req = [id |-> CHOOSE id \in DoNames : TRUE, op |-> "none", body |-> Null, at |-> 0]
    /\ resp = Response(0, Null)
    /\ pre = Undefined
    /\ pc = [p \in Procs |-> "idle"]
    /\ loc = [p \in Procs |-> NoLocals]
    /\ out = Response(0, Null)
    /\ served = 0
    /\ started = 0
    /\ generated = 0
    /\ call = [fn |-> "none"]

\* the ages at which a reader finds what was cached at Epoch: at each window,
\* one millisecond to either side of it, and past the longest window of CONFIG
LateReadings ==
    {Epoch + CACHE_TTL_WEATHER - 1, Epoch + CACHE_TTL_WEATHER, Epoch + CACHE_TTL_WEATHER + 1,
     Epoch + CACHE_TTL_NEWS, Epoch + CACHE_TTL_NEWS + 1,
     Epoch + CACHE_TTL_IMAGE + 1}

TickLate ==
    /\ \E t \in LateReadings : t > now /\ now' = t
    /\ UNCHANGED <<storage, req, resp, pre, pc, loc, out, served, started, generated, call>>

(* handlePortfolioPage *)

\* /p/<slug> and /@<slug>: a slug, or the user name alone
PageSlugs == ReadSlugs \cup Usernames

\* the pages, each standing for the HTML rendered from the data it is given
serveNotFoundPage == Response(404, Obj([page |-> Null]))
servePortfolioPage(userData) == Response(200, Obj([page |-> userData]))
serveSocialPreviewPage(userData) == Response(200, Obj([preview |-> userData]))

PageStart(p, slug, isBot, fetched) ==
    /\ Free(p)
    /\ started < MaxRequests
    /\ started' = started + 1
    /\ ToLowerCase(SplitFirst(slug, "-")) \in DOMAIN storage
    /\ DoCall(ToLowerCase(SplitFirst(slug, "-")), "get", Null)
    /\ IF Get(resp'.body, "exists") # JsTrue
          \/ (Get(Get(resp'.body, "data"), "slug") # Str(slug) /\ SplitFirst(slug, "-") # slug)
       THEN /\ Finish(p, serveNotFoundPage)
            /\ call' = [fn |-> "handlePortfolioPage",
                        args |-> [slug |-> slug, at |-> now, userData |-> Undefined],
                        result |-> [kind |-> "not_found", updates |-> EmptyObj]]
       ELSE LET userData == Get(resp'.body, "data")
                refetch == IF isBot THEN [kind |-> "preview", updates |-> EmptyObj]
                           ELSE Refetch(userData, now, fetched)
            IN /\ call' = [fn |-> "handlePortfolioPage",
                           args |-> [slug |-> slug, at |-> now, userData |-> userData],
                           result |-> refetch]
               /\ CASE refetch.kind = "preview" -> Finish(p, serveSocialPreviewPage(userData))
                    [] refetch.kind = "threw" -> Finish(p, WorkerError)
                    [] refetch.kind = "fresh" -> Finish(p, servePortfolioPage(userData))
                    [] OTHER ->
                          Goto(p, "page_update",
                               [kind |-> "page", slug |-> slug, userData |-> userData,
                                updates |-> refetch.updates])
    /\ UNCHANGED <<now, served, generated>>

PageUpdate(p) ==
    /\ pc[p] = "page_update"
    /\ DoCall(ToLowerCase(SplitFirst(loc[p].slug, "-")), "update", loc[p].updates)
    /\ Finish(p, servePortfolioPage(ObjectAssign(loc[p].userData, loc[p].updates)))
    /\ UNCHANGED <<call, now, served, started, generated>>

\* the readers run one at a time (Spec runs two handlers at a time)
Readers == {SlotOrder[1]}

ReadNext ==
    \/ TickLate
    \/ \E p \in Readers, slug \in ReadSlugs, fetched \in FetchOutcomes : ReadStart(p, slug, fetched)
    \/ \E p \in Readers : ReadUpdate(p)
    \/ \E p \in Readers, slug \in PageSlugs, isBot \in BOOLEAN, fetched \in FetchOutcomes :
          PageStart(p, slug, isBot, fetched)
    \/ \E p \in Readers : PageUpdate(p)

ReadSpec == ReadInit /\ [][ReadNext]_vars

----------------------------------------------------------------------------
(* AliasSpec: a page is generated and then asked for by its slug and by the *)
(* user name, one request at a time, for a user name with a '-' and one     *)
(* without.                                                                 *)

AliasUsernames == {<<"a", "-", "b">>, <<"A", "b">>}

\* the objects the requests address: one per user name, and one per first
\* part of a slug
AliasNames ==
    {ToLowerCase(u) : u \in AliasUsernames}
    \cup {ToLowerCase(SplitFirst(u, "-")) : u \in AliasUsernames}

AliasRequests ==
    {[username |-> u, city |-> Undefined, interests |-> InterestsTech, userBio |-> Undefined] :
        u \in AliasUsernames}

\* /api/user/<slug> and /p/<slug>: the slugs handleGenerate returns
AliasSlugs == {generateSlug(u, r).val : u \in AliasUsernames, r \in RandomSuffixes \cup {RandomHalf}}

AliasInit ==
    /\ storage = [id \in AliasNames |-> Undefined]
    /\ now = Epoch
    /\ req = [id |-> CHOOSE id \in AliasNames : TRUE, op |-> "none", body |-> Null, at |-> 0]
    /\ resp = Response(0, Null)
    /\ pre = Undefined
    /\ pc = [p \in Procs |-> "idle"]
    /\ loc = [p \in Procs |-> NoLocals]
    /\ out = Response(0, Null)
    /\ served = 0
    /\ started = 0
    /\ generated = 0
    /\ call = [fn |-> "none"]

AliasNext ==
    \/ \E p \in Readers, request \in AliasRequests : GenerateStart(p, request)
    \/ \E p \in Readers : GenerateUpdate(p)
    \/ \E p \in Readers, outcome \in GenerateOutcomes : GenerateCollect(p, outcome)
    \/ \E p \in Readers : GenerateSet(p)
    \/ \E p \in Readers, slug \in AliasSlugs, fetched \in {FetchedAll} : ReadStart(p, slug, fetched)
    \/ \E p \in Readers, slug \in AliasSlugs \cup AliasUsernames, isBot \in BOOLEAN, fetched \in {FetchedAll} :
          PageStart(p, slug, isBot, fetched)

AliasSpec == AliasInit /\ [][AliasNext]_vars

----------------------------------------------------------------------------
(* ObjectSpec: requests that overlap at one UserDurableObject.  updateData  *)
(* awaits the request's body, then storage.get; from the value it is given  *)
(* to storage.put nothing is awaited.  While storage.get is awaited the     *)
(* object is delivered no other event.                                      *)

\* an object that is delivered events while a storage.get is awaited
GateOpen_always(id) == TRUE

\* the object is delivered events: none of its requests awaits storage.get
GateOpen(id) == \A q \in Procs : ~(pc[q] = "update_get" /\ loc[q].id = id)

\* /update is delivered: await request.json()
UpdateArrive(p, id, updates) ==
    /\ pc[p] = "idle" /\ loc[p] = NoLocals
    /\ GateOpen(id)
    /\ pc' = [pc EXCEPT ![p] = "update_json"]
    /\ loc' = [loc EXCEPT ![p] = [kind |-> "update", id |-> id, updates |-> updates,
                                  overlaps |-> \E q \in Procs : pc[q] = "update_json"]]
    /\ UNCHANGED <<storage, now, req, resp, pre, out, served, started, generated, call>>

\* the body is read: await this.state.storage.get('userData')
UpdateStorageGet(p) ==
    /\ pc[p] = "update_json"
    /\ GateOpen(loc[p].id)
    /\ pc' = [pc EXCEPT ![p] = "update_get"]
    /\ loc' = [loc EXCEPT ![p] = [kind |-> "update", id |-> loc[p].id,
                                  updates |-> loc[p].updates, overlaps |-> loc[p].overlaps,
                                  userData |-> storage[loc[p].id]]]
    /\ UNCHANGED <<storage, now, req, resp, pre, out, served, started, generated, call>>

\* the value arrives: the merge, the stamp, storage.put and the response
UpdatePut(p) ==
    /\ pc[p] = "update_get"
    /\ LET id == loc[p].id
           r == DoFetch("update", loc[p].userData, loc[p].updates, now)
       IN /\ storage' = [storage EXCEPT ![id] = IF r.resp.status = 200 THEN r.data ELSE @]
          /\ resp' = r.resp
          /\ req' = [id |-> id, op |-> "update", body |-> loc[p].updates, at |-> now]
          /\ pre' = loc[p].userData
          /\ pc' = [pc EXCEPT ![p] = "update_done"]
          /\ loc' = [loc EXCEPT ![p] = [kind |-> "updated", id |-> id,
                                        updates |-> loc[p].updates,
                                        overlaps |-> loc[p].overlaps,
                                        at |-> now, nth |-> served + 1,
                                        status |-> r.resp.status]]
    /\ served' = served + 1
    /\ UNCHANGED <<now, out, started, generated, call>>

\* /get is delivered and served
ObjectGet(id) ==
    /\ GateOpen(id)
    /\ DoCall(id, "get", Null)
    /\ UNCHANGED <<now, pc, loc, out, served, started, generated, call>>

ObjectNext ==
    \/ Tick
    \/ \E p \in Procs, id \in DoNames, updates \in UpdatePayloads : UpdateArrive(p, id, updates)
    \/ \E p \in Procs : UpdateStorageGet(p)
    \/ \E p \in Procs : UpdatePut(p)
    \/ \E id \in DoNames : ObjectGet(id)

ObjectSpec == ReadInit /\ [][ObjectNext]_vars

----------------------------------------------------------------------------
(* ImageSpec: generateAndStoreImages run by two requests at a time, over   *)
(* one R2 bucket.  A run asks the AI binding for the background, puts it,   *)
(* asks for the card, puts it; what throws ends the run.                   *)

ImageUsernames == Usernames \cup {<<"c">>}

\* `backgrounds/${username}-bg-${Date.now()}.png`
bgKey(username, t) ==
    <<"b", "a", "c", "k", "g", "r", "o", "u", "n", "d", "s", "/">> \o username
    \o <<"-", "b", "g", "-">> \o ToRadix(t, 10) \o <<".", "p", "n", "g">>

\* `cards/${username}-card-${Date.now()}.png`
cardKey(username, t) ==
    <<"c", "a", "r", "d", "s", "/">> \o username
    \o <<"-", "c", "a", "r", "d", "-">> \o ToRadix(t, 10) \o <<".", "p", "n", "g">>

\* the keys the runs have put so far
KeysPut == UNION {{loc[q].keys[i] : i \in 1..Len(loc[q].keys)} : q \in {r \in Procs : loc[r] # NoLocals}}

\* env.R2_BUCKET.put(key, ...): the run's locals afterwards and the put itself
BucketPut(p, key, label) ==
    /\ pc' = [pc EXCEPT ![p] = label]
    /\ loc' = [loc EXCEPT ![p] = [kind |-> "images", username |-> loc[p].username,
                                  keys |-> Append(loc[p].keys, key)]]
    /\ call' = [fn |-> "R2_BUCKET.put", args |-> [key |-> key, at |-> now],
                result |-> [replaced |-> key \in KeysPut]]

\* generateAndStoreImages is called: await env.AI.run for the background
ImagesStart(p, username) ==
    /\ pc[p] = "idle" /\ loc[p] = NoLocals
    /\ pc' = [pc EXCEPT ![p] = "image_bg"]
    /\ loc' = [loc EXCEPT ![p] = [kind |-> "images", username |-> username, keys |-> <<>>]]
    /\ UNCHANGED <<storage, now, req, resp, pre, out, served, started, generated, call>>

\* the background arrives and is put, or the AI binding throws
PutBackground(p, ok) ==
    /\ pc[p] = "image_bg"
    /\ IF ok THEN BucketPut(p, bgKey(loc[p].username, now), "image_card")
       ELSE /\ pc' = [pc EXCEPT ![p] = "image_done"]
            /\ UNCHANGED <<loc, call>>
    /\ UNCHANGED <<storage, now, req, resp, pre, out, served, started, generated>>

\* the card arrives and is put, or the AI binding throws
PutCard(p, ok) ==
    /\ pc[p] = "image_card"
    /\ IF ok THEN BucketPut(p, cardKey(loc[p].username, now), "image_done")
       ELSE /\ pc' = [pc EXCEPT ![p] = "image_done"]
            /\ UNCHANGED <<loc, call>>
    /\ UNCHANGED <<storage, now, req, resp, pre, out, served, started, generated>>

ImageNext ==
    \/ Tick
    \/ \E p \in Procs, username \in ImageUsernames : ImagesStart(p, username)
    \/ \E p \in Procs, ok \in BOOLEAN : PutBackground(p, ok)
    \/ \E p \in Procs, ok \in BOOLEAN : PutCard(p, ok)

ImageSpec == Init /\ [][ImageNext]_vars

----------------------------------------------------------------------------
(* RaceSpec: two requests at a time for an identity whose record exists,    *)
(* every handler of the Worker among them, with the deletion.  A first      *)
(* generation that found no record before the record was written may still  *)
(* be collecting.                                                            *)

\* the requests of RaceSpec: what every source answers, or one failure
RaceGenerateOutcomes ==
    {o \in GenerateOutcomes :
        o.kind = "ai_failed" \/ (o.kind = "ok" /\ o.fetched = FetchedAll /\ o.images = "ok")}
RaceRefreshOutcomes ==
    {o \in RefreshOutcomes :
        o.kind = "ai_failed" \/ (o.kind = "ok" /\ o.fetched = FetchedAll /\ o.images = "ok")}
\* a city the primary weather source knows
CityBeijing == Str(<<"B", "e", "i", "j", "i", "n", "g">>)

\* POST /api/generate that keeps the city or names another one
RaceGenerateRequests ==
    {[username |-> u, city |-> c, interests |-> InterestsTech, userBio |-> Undefined] :
        u \in Usernames, c \in {Undefined, CityBeijing}}

\* the slug of the record that is stored
RaceSlugs == {generateSlug(u, <<"k", "3", "x", "9", "q", "a">>).val : u \in Usernames}

\* the record is stored; the second slot is idle, or holds a handleGenerate
\* that was answered {exists: false} before the record was written
RaceInit ==
    /\ storage = [id \in DoNames |->
                    GeneratedRecord(CHOOSE u \in Usernames : ToLowerCase(u) = id)]
    /\ now = Epoch
    /\ req = [id |-> CHOOSE id \in DoNames : TRUE, op |-> "none", body |-> Null, at |-> 0]
    /\ resp = Response(0, Null)
    /\ pre = Undefined
    /\ \E u \in Usernames, inFlight \in BOOLEAN :
          /\ pc = [p \in Procs |-> IF inFlight /\ p = SlotOrder[2] THEN "gen_collect" ELSE "idle"]
          /\ loc = [p \in Procs |->
                      IF inFlight /\ p = SlotOrder[2]
                      THEN [kind |-> "generate",
                            request |-> [username |-> u, city |-> Undefined,
                                         interests |-> InterestsTech, userBio |-> Undefined]]
                      ELSE NoLocals]
    /\ out = Response(0, Null)
    /\ served = 0
    /\ started = 0
    /\ generated = 0
    /\ call = [fn |-> "none"]

RaceNext ==
    \/ Tick
    \/ \E p \in Procs, request \in RaceGenerateRequests : GenerateStart(p, request)
    \/ \E p \in Procs : GenerateUpdate(p)
    \/ \E p \in Procs, outcome \in RaceGenerateOutcomes : GenerateCollect(p, outcome)
    \/ \E p \in Procs : GenerateSet(p)
    \/ \E p \in Procs, slug \in RaceSlugs : ReadStart(p, slug, FetchedAll)
    \/ \E p \in Procs : ReadUpdate(p)
    \/ \E p \in Procs, slug \in RaceSlugs : PageStart(p, slug, FALSE, FetchedAll)
    \/ \E p \in Procs : PageUpdate(p)
    \/ \E p \in Procs, request \in RefreshRequests : RefreshStart(p, request)
    \/ \E p \in Procs, outcome \in RaceRefreshOutcomes : RefreshCollect(p, outcome)
    \/ \E p \in Procs : RefreshUpdate(p)
    \/ \E p \in Procs : RefreshReload(p)
    \/ \E p \in Procs, request \in BookmarkRequests : ReplaceBookmarks(p, request)
    \/ \E id \in DoNames : Delete(id)

RaceSpec == RaceInit /\ [][RaceNext]_vars

----------------------------------------------------------------------------
(* Claims about the store, checked under StoreSpec *)

IsObject(v) == v.kind = "object"
IsScalar(v) == v.kind \in {"null", "bool", "num", "str"}

Without(o, k) == Obj([x \in DOMAIN o.val \ {k} |-> o.val[x]])

\* v without timestamps.updated
SansUpdated(v) ==
    IF IsObject(v) /\ IsObject(Get(v, "timestamps"))
    THEN With(v, "timestamps", Without(Get(v, "timestamps"), "updated"))
    ELSE v

\* U names only keys R has, at every nesting level
RECURSIVE KeysWithin(_, _)
KeysWithin(U, R) ==
    /\ IsObject(U)
    /\ IsObject(R)
    /\ \A k \in DOMAIN U.val :
          /\ k \in DOMAIN R.val
          /\ IsObject(U.val[k]) => KeysWithin(U.val[k], R.val[k])

\* S keeps every key of R that U does not name, and holds U's scalars
RECURSIVE MergeKept(_, _, _)
MergeKept(R, U, S) ==
    /\ IsObject(S)
    /\ \A k \in DOMAIN R.val :
          /\ k \in DOMAIN S.val
          /\ IF k \notin DOMAIN U.val THEN S.val[k] = R.val[k]
             ELSE IF IsObject(U.val[k]) THEN MergeKept(R.val[k], U.val[k], S.val[k])
             ELSE IsScalar(U.val[k]) => S.val[k] = U.val[k]

Stored == storage[req.id]

UpdateWithin == req.op = "update" /\ Truthy(pre) /\ KeysWithin(req.body, pre)

\* C1 as stated: after update(U), with U's keys among R's at every level, the
\* stored record has every key of R absent from U with its old value, and every
\* scalar key of U holds U's value (read for the updates that succeed).
C1_Original ==
    (UpdateWithin /\ resp.status = 200) => MergeKept(pre, req.body, Stored)

\* C1 amended: the same, except that timestamps.updated is set to the time of
\* the update, and that an update whose timestamps value is a scalar fails with
\* status 500 and leaves the record as it was.
C1_MergeKeepsAbsentKeys ==
    UpdateWithin =>
        IF Has(req.body, "timestamps") /\ ~IsObject(Get(req.body, "timestamps"))
        THEN resp.status = 500 /\ Stored = pre
        ELSE /\ resp.status = 200
             /\ MergeKept(SansUpdated(pre), SansUpdated(req.body), SansUpdated(Stored))
             /\ Get(Get(Stored, "timestamps"), "updated") = Num(req.at)

C1_Witness ==
    /\ UpdateWithin
    /\ resp.status = 200
    /\ Get(req.body, "cachedWeather") = Obj([temp |-> Num(30)])
    /\ Get(pre, "cachedWeather") = WeatherXiaomi
    /\ Get(Get(Stored, "cachedWeather"), "aqi") = Num(40)
    /\ Get(Get(Stored, "cachedWeather"), "temp") = Num(30)
    /\ Get(Get(pre, "timestamps"), "updated") # Num(req.at)

\* S holds U's value wherever the old and the new value are not both objects
RECURSIVE ReplacedUnlessBothObjects(_, _, _)
ReplacedUnlessBothObjects(R, U, S) ==
    /\ IsObject(S)
    /\ \A k \in DOMAIN U.val :
          /\ k \in DOMAIN S.val
          /\ IF IsObject(Get(R, k)) /\ IsObject(U.val[k])
             THEN ReplacedUnlessBothObjects(Get(R, k), U.val[k], S.val[k])
             ELSE S.val[k] = U.val[k]

\* C2 as stated: the merge recurses into a key only when both the old and the
\* new value are non-array objects; in every other case the stored value is
\* exactly the new value.
C2_Original ==
    (req.op = "update" /\ resp.status = 200) =>
        ReplacedUnlessBothObjects(SansUpdated(pre), SansUpdated(req.body),
                                  SansUpdated(Stored))

\* C5 as stated: create fails with AlreadyExists and leaves the record
\* unchanged whenever a record is already present.
C5_Original ==
    (req.op = "set" /\ Truthy(pre)) => (resp.status # 200 /\ Stored = pre)

\* C6: update and replaceBookmarks on an identity without a record answer 404
\* 'User not found' and leave the store without a record for it.
C6_NotFoundCreatesNothing ==
    (req.op \in {"update", "update-bookmarks"} /\ ~Truthy(pre)) =>
        /\ resp = Response(404, ErrorBody(USER_NOT_FOUND))
        /\ Stored = Undefined

C6_Witness ==
    /\ req.op = "update"
    /\ Has(req.body, "timestamps") /\ IsObject(Get(req.body, "timestamps"))
    /\ ~Truthy(pre)
    /\ resp.status = 404

BookmarksIn == Or(Get(req.body, "bookmarks"), Arr(<<>>))
BookmarksStored == Get(Stored, "bookmarks")
BookmarksReplaced == req.op = "update-bookmarks" /\ resp.status = 200

\* C8 as stated: after replaceBookmarks every item that came without an id has
\* an id that differs from the id of every other bookmark of the result.
C8_Original ==
    BookmarksReplaced =>
        \A i \in 1..Len(BookmarksIn.val) :
            ~Truthy(Get(BookmarksIn.val[i], "id")) =>
                \A j \in 1..Len(BookmarksStored.val) :
                    j # i => Get(BookmarksStored.val[j], "id") # Get(BookmarksStored.val[i], "id")

\* C9: replaceBookmarks stores exactly the input's items, in order and in
\* number, and changes no field but bookmarks and timestamps.updated.
C9_ReplaceAllNarrowFrame ==
    BookmarksReplaced =>
        /\ BookmarksStored.kind = "array"
        /\ Len(BookmarksStored.val) = Len(BookmarksIn.val)
        /\ \A i \in 1..Len(BookmarksIn.val) :
              /\ Get(BookmarksStored.val[i], "name") = Get(BookmarksIn.val[i], "name")
              /\ Get(BookmarksStored.val[i], "url") = Get(BookmarksIn.val[i], "url")
              /\ Truthy(Get(BookmarksIn.val[i], "id")) =>
                    Get(BookmarksStored.val[i], "id") = Get(BookmarksIn.val[i], "id")
              /\ Truthy(Get(BookmarksIn.val[i], "icon")) =>
                    Get(BookmarksStored.val[i], "icon") = Get(BookmarksIn.val[i], "icon")
        /\ Without(SansUpdated(Stored), "bookmarks") = Without(SansUpdated(pre), "bookmarks")
        /\ Get(Get(Stored, "timestamps"), "updated") = Num(req.at)

C9_Witness ==
    /\ BookmarksReplaced
    /\ Get(pre, "bookmarks") = getDefaultBookmarks
    /\ Len(BookmarksIn.val) = 2
    /\ Len(BookmarksStored.val) = 2
    /\ Get(Get(pre, "timestamps"), "updated") # Num(req.at)

\* C10: delete always succeeds and leaves no record; a get that follows a
\* delete reports exists = false, and a delete that follows a delete succeeds
\* and leaves the store as it was.
C10_DeleteIdempotent ==
    [][(served' = served + 1 /\ req'.id = req.id) =>
          /\ req'.op = "delete" => (resp'.status = 200 /\ storage'[req.id] = Undefined)
          /\ (req.op = "delete" /\ req'.op = "get") =>
                resp' = Response(200, Obj([exists |-> Bool(FALSE)]))
          /\ (req.op = "delete" /\ req'.op = "delete") =>
                (resp'.status = 200 /\ storage' = storage)]_vars

C10_Witness ==
    /\ req.op = "delete"
    /\ pre = Undefined
    /\ resp.status = 200
    /\ served = MaxStoreOps

----------------------------------------------------------------------------
(* Claims about the Worker's handlers, checked under Spec *)

Exists(id) == Truthy(storage[id])

\* C3 as stated: from its creation to its deletion a record keeps its slug,
\* whatever requests for its identity interleave, two generate requests that
\* both saw no record included.
C3_Original ==
    [][\A id \in DoNames :
          (Exists(id) /\ Truthy(storage'[id]))
              => Get(storage'[id], "slug") = Get(storage[id], "slug")]_vars

GenerateFrame == {"city", "interests", "userBio", "timestamps"}

Outside(v, keys) == Obj([k \in DOMAIN v.val \ keys |-> v.val[k]])

\* C4: a generate request that finds a record takes the update path and
\* generates nothing; when its update reaches the record it answers 200 with
\* isNew=false and the record's slug, changes nothing of the record but city,
\* interests, userBio and timestamps.updated, and leaves every other identity's
\* record alone.
C4_GenerateOnExistingUpdates ==
    [][\A p \in Procs :
          /\ (pc[p] = "idle" /\ pc'[p] \in {"gen_update", "gen_collect"}
                /\ Exists(ToLowerCase(loc'[p].request.username)))
                => (pc'[p] = "gen_update" /\ storage' = storage
                      /\ generated' = generated)
          /\ (pc[p] = "gen_update" /\ pc'[p] = "idle"
                /\ Exists(ToLowerCase(loc[p].request.username)))
                => LET id == ToLowerCase(loc[p].request.username) IN
                   /\ out'.status = 200
                   /\ Get(out'.body, "isNew") = JsFalse
                   /\ Get(out'.body, "slug") = Get(storage[id], "slug")
                   /\ Truthy(storage'[id])
                   /\ Get(storage'[id], "slug") = Get(storage[id], "slug")
                   /\ Outside(storage'[id], GenerateFrame) = Outside(storage[id], GenerateFrame)
                   /\ Without(Get(storage'[id], "timestamps"), "updated")
                        = Without(Get(storage[id], "timestamps"), "updated")
                   /\ \A other \in DoNames \ {id} : storage'[other] = storage[other]
                   /\ generated' = generated]_vars

\* a generate request for a record that exists has been answered, the city it
\* sent now in the record
C4_Witness ==
    /\ req.op = "update"
    /\ Truthy(pre)
    /\ Has(out.body, "isNew")
    /\ Get(out.body, "isNew") = JsFalse
    /\ Get(req.body, "city") = CityNY
    /\ Get(pre, "city") # CityNY
    /\ Get(Stored, "city") = CityNY

OrderMatchesPosition(bookmarks) ==
    /\ bookmarks.kind = "array"
    /\ \A i \in 1..Len(bookmarks.val) : Get(bookmarks.val[i], "order") = Num(i - 1)

\* C7: in every state, every record that exists has bookmarks[i].order = i at
\* every position i, after creation with the default bookmarks and after any
\* replacement of the bookmarks.
C7_OrderIsPosition ==
    \A id \in DoNames : Exists(id) => OrderMatchesPosition(Get(storage[id], "bookmarks"))

\* a replacement went through whose first item came with order 5
C7_Witness ==
    /\ req.op = "update-bookmarks"
    /\ resp.status = 200
    /\ Get(Get(req.body, "bookmarks").val[1], "order") = Num(5)
    /\ Len(Get(Stored, "bookmarks").val) > 0

SourceOf(weather) == Get(weather, "source")

\* the static default of fetchWeather, or a list of news with nothing in it
DefaultOrEmpty(value) ==
    \/ value = Arr(<<>>)
    \/ SourceOf(value) = Str(<<"f", "a", "l", "l", "b", "a", "c", "k">>)

\* the categories of cached content: the fields of the record that hold it
\* and the timestamp that dates it
ContentCategories ==
    {[fields |-> {"aiBio", "aiProjectDescriptions", "aiQuote"}, stamp |-> "textGenerated"],
     [fields |-> {"aiBackgroundUrl", "aiCardImageUrl"}, stamp |-> "imageGenerated"],
     [fields |-> {"cachedNews"}, stamp |-> "newsUpdated"],
     [fields |-> {"cachedWeather"}, stamp |-> "weatherUpdated"]}

\* what a record holds in a field, a null and a missing field both nothing
ContentAt(record, field) ==
    IF Has(record, field) /\ record.val[field] # Null THEN record.val[field] ELSE Undefined

ContentChanged(category) ==
    \E field \in category.fields : ContentAt(Stored, field) # ContentAt(pre, field)

ContentWritten(category) == \E field \in category.fields : Has(req.body, field)

Stamped(category) == Truthy(GetOpt(GetOpt(req.body, "timestamps"), category.stamp))

\* C11 as stated: every write to the store that changes the generated text,
\* the image references, the cached news or the cached weather sets that
\* category's timestamp in the same operation, and no operation sets a
\* category's timestamp without writing that category's content.
C11_Original ==
    (req.op \in {"set", "update"} /\ resp.status = 200)
        => \A category \in ContentCategories :
              /\ ContentChanged(category) => Stamped(category)
              /\ Stamped(category) => ContentWritten(category)

HasBundle(record) ==
    /\ Truthy(Get(record, "github"))
    /\ Truthy(Get(record, "aiBio"))
    /\ Truthy(Get(record, "aiQuote"))

ErrorAnswer(response) == response.status = 500 /\ Has(response.body, "error")

\* C21: a generate request that found no record and whose profile fetch or
\* generation fails answers one error (500) and sends nothing to the store:
\* the step in which it fails leaves every record as it was, so an identity
\* without a record still has none; a record comes into being only by the
\* /set of a request that got the profile and the generated bundle, which
\* answers 200.
C21_FailedGenerationCreatesNothing ==
    [][/\ \A p \in Procs :
             (pc[p] = "gen_collect" /\ pc'[p] # "gen_collect")
                => /\ storage' = storage
                   /\ req' = req
                   /\ generated' = generated => pc'[p] = "idle"
                   /\ pc'[p] = "idle" => ErrorAnswer(out')
                   /\ pc'[p] # "idle" => pc'[p] = "gen_set" /\ HasBundle(loc'[p].body)
       /\ \A id \in DoNames :
             (~Exists(id) /\ Truthy(storage'[id]))
                => /\ req'.op = "set"
                   /\ out'.status = 200
                   /\ Get(out'.body, "isNew") = JsTrue
                   /\ HasBundle(storage'[id])]_vars

\* the first request was a generate whose generation failed: it was answered
\* with an error and its identity has no record
C21_Witness ==
    /\ started = 1
    /\ generated = 1
    /\ ErrorAnswer(out)
    /\ req.op = "get"
    /\ Get(resp.body, "exists") = JsFalse
    /\ ~Exists(req.id)
    /\ \A p \in Procs : pc[p] = "idle"

\* C22: when the profile source or the generative backend fails during a
\* refresh request, the request answers an error and sends nothing to the
\* store: the step in which it fails leaves every record exactly as it was,
\* and a refresh sends an update only with the profile and the generated
\* bundle in it.
C22_FailedRefreshKeepsRecord ==
    [][\A p \in Procs :
          (pc[p] = "refresh_collect" /\ pc'[p] # "refresh_collect")
             => /\ storage' = storage
                /\ req' = req
                /\ generated' = generated => pc'[p] = "idle"
                /\ pc'[p] = "idle" => ErrorAnswer(out')
                /\ pc'[p] # "idle"
                      => /\ pc'[p] = "refresh_update"
                         /\ HasBundle(loc'[p].updates)]_vars

\* a refresh of a record that exists failed at the profile source: it was
\* answered with an error and the record is the one the refresh had read
C22_Witness ==
    /\ started = 2
    /\ generated = 1
    /\ call.fn = "none"
    /\ ErrorAnswer(out)
    /\ req.op = "get"
    /\ Get(resp.body, "exists") = JsTrue
    /\ Exists(req.id)
    /\ Stored = Get(resp.body, "data")
    /\ \A p \in Procs : pc[p] = "idle"

\* the store served the update of a refresh request
RefreshUpdated == req.op = "update" /\ resp.status = 200 /\ Has(req.body, "github")

\* C23 as stated: in a refresh, a category that could not be refreshed is
\* skipped: when every weather or news source failed the stored cachedWeather
\* or cachedNews and its timestamp stay, and when the image generation of a
\* forced refresh failed the stored aiBackgroundUrl, aiCardImageUrl and
\* imageGenerated stay.
C23_Original ==
    RefreshUpdated =>
        /\ \A category \in
              {[field |-> "cachedWeather", stamp |-> "weatherUpdated"],
               [field |-> "cachedNews", stamp |-> "newsUpdated"]} :
              DefaultOrEmpty(Get(req.body, category.field))
                 => /\ Get(Stored, category.field) = Get(pre, category.field)
                    /\ GetOpt(Get(Stored, "timestamps"), category.stamp)
                         = GetOpt(Get(pre, "timestamps"), category.stamp)
        /\ (Has(req.body, "aiBackgroundUrl") /\ ~Truthy(Get(req.body, "aiBackgroundUrl")))
              => /\ Get(Stored, "aiBackgroundUrl") = Get(pre, "aiBackgroundUrl")
                 /\ Get(Stored, "aiCardImageUrl") = Get(pre, "aiCardImageUrl")
                 /\ GetOpt(Get(Stored, "timestamps"), "imageGenerated")
                      = GetOpt(Get(pre, "timestamps"), "imageGenerated")

\* record.timestamps[stamp]
StampIn(record, stamp) == GetOpt(GetOpt(record, "timestamps"), stamp)

TextFields == {"aiBio", "aiProjectDescriptions", "aiQuote"}
ImageFields == {"aiBackgroundUrl", "aiCardImageUrl"}

\* after holds what was written: the new value itself, or, the new value
\* being an object, every key of it at every level (the merge keeps the keys
\* of the old object that the new one lacks)
RECURSIVE Carries(_, _)
Carries(after, new) ==
    IF IsObject(new)
    THEN /\ IsObject(after)
         /\ \A k \in DOMAIN new.val : k \in DOMAIN after.val /\ Carries(after.val[k], new.val[k])
    ELSE after = new

\* the record after took the fields from the updates
Took(after, updates, fields) ==
    \A field \in fields : Has(updates, field) /\ Carries(Get(after, field), Get(updates, field))

\* the record after has the fields and the timestamp as the record before
Kept(after, before, fields, stamp) ==
    /\ \A field \in fields : Get(after, field) = Get(before, field)
    /\ StampIn(after, stamp) = StampIn(before, stamp)

\* text, news and weather were rewritten and dated with the one time t
RewroteTextNewsWeather(after, updates, t) ==
    /\ Took(after, updates, TextFields \cup {"cachedNews", "cachedWeather"})
    /\ \A stamp \in {"textGenerated", "newsUpdated", "weatherUpdated"} :
          StampIn(after, stamp) = t /\ t.kind = "num"

SlugOf(slug, name) ==
    /\ slug.kind = "str"
    /\ Len(slug.val) = Len(name) + 7
    /\ SubSeq(slug.val, 1, Len(name) + 1) = name \o <<"-">>
    /\ \A i \in (Len(name) + 2)..Len(slug.val) :
          \E d \in 1..Len(Base36Digits) : Base36Digits[d] = slug.val[i]

\* the record was dated at one time, not after the store wrote it
DatedAtRequest(record) ==
    LET t == StampIn(record, "textGenerated")
    IN /\ t.kind = "num"
       /\ t.val <= req.at
       /\ StampIn(record, "newsUpdated") = t
       /\ StampIn(record, "weatherUpdated") = t

DefaultBookmarksInOrder(record) ==
    /\ Get(record, "bookmarks") = getDefaultBookmarks
    /\ Len(Get(record, "bookmarks").val) = 4
    /\ OrderMatchesPosition(Get(record, "bookmarks"))

\* C25 as stated: a successful first generation for an identity creates a
\* record whose slug is the lower-case identity, '-' and exactly six characters
\* of [a-z0-9], whose textGenerated, newsUpdated and weatherUpdated are the
\* time of the request, and whose bookmarks are the four default entries with
\* order 0..3 in array order.
C25_Original ==
    (req.op = "set" /\ resp.status = 200)
        => /\ SlugOf(Get(Stored, "slug"), req.id)
           /\ DatedAtRequest(Stored)
           /\ DefaultBookmarksInOrder(Stored)

\* C31 as stated: a create that finds the record another first-time
\* generation has stored merges over it, and what the second writer does not
\* send, timestamps.created for one, stays as the first writer left it
C31_Original ==
    (req.op = "set" /\ resp.status = 200 /\ Truthy(pre))
        => /\ Get(Get(Stored, "timestamps"), "created") = Get(Get(pre, "timestamps"), "created")
           /\ Stored = updateData(pre, req.body, req.at).data

\* C35 as stated: after an update that carries a fetched weather or a
\* generated set of project descriptions, what is stored under that key is
\* the value the update carried, with nothing of the value it replaced
C35_Original ==
    (req.op = "update" /\ resp.status = 200)
        => /\ Has(req.body, "cachedWeather")
                => Get(Stored, "cachedWeather") = Get(req.body, "cachedWeather")
           /\ Has(req.body, "aiProjectDescriptions")
                => Get(Stored, "aiProjectDescriptions") = Get(req.body, "aiProjectDescriptions")

\* the positions at which a handler has collected what it awaits from its
\* upstream sources and is about to send it to the store
PersistLabels == {"gen_update", "gen_set", "read_update", "page_update", "refresh_update"}

\* what the handler in slot p has collected to send
Collected(p) ==
    CASE pc[p] = "gen_update" -> GenerateUpdatePayload(loc[p].request)
      [] pc[p] = "gen_set" -> loc[p].body
      [] OTHER -> loc[p].updates

\* slot p sends what it collected, and is past its only write
Persists(p) ==
    /\ pc[p] \in PersistLabels
    /\ pc'[p] \in {"idle", "refresh_reload"}
    /\ req'.op \in {"set", "update"}
    /\ req'.body = Collected(p)

\* C32: a generate, a read or a refresh changes what the store holds in one
\* step only, the one that sends what it collected from all its upstream
\* sources, after which it writes no more; every other step of a handler, a
\* failure before that step included, leaves every record as it was.  (The
\* replacement of the bookmarks and the deletion are requests to the store
\* themselves.)
C32_OneWriteAfterCollecting ==
    [][/\ storage' # storage
            => \/ req'.op \in {"update-bookmarks", "delete"}
               \/ \E p \in Procs : Persists(p)
       /\ \A p \in Procs :
             (pc'[p] # pc[p] /\ pc[p] \notin PersistLabels /\ req'.op \notin {"update-bookmarks", "delete"})
                 => storage' = storage]_vars

\* a refresh has sent its one update and the record has changed
C32_Witness ==
    /\ \E p \in Procs : pc[p] = "refresh_reload"
    /\ req.op = "update" /\ resp.status = 200 /\ Has(req.body, "aiBio")
    /\ Stored # pre

----------------------------------------------------------------------------
(* Claims about the readers, checked under ReadSpec *)

\* a reader found the record and went on to what is stale (a crawler's
\* preview and a page that is not found stop before that)
ReadEvaluated ==
    /\ call.fn \in {"handleGetUser", "handlePortfolioPage"}
    /\ call.result.kind \in {"threw", "fresh", "update"}

Read == call.args.userData

StampOf(record, stamp) == GetOpt(GetOpt(record, "timestamps"), stamp)

AgeAtRead(stamp) == call.args.at - StampOf(Read, stamp).val

\* the categories a reader refetches: the cached field, the timestamp, the window
Refetchable ==
    {[field |-> "cachedWeather", stamp |-> "weatherUpdated", window |-> CACHE_TTL_WEATHER],
     [field |-> "cachedNews", stamp |-> "newsUpdated", window |-> CACHE_TTL_NEWS]}

\* stale as the specification defines it: nothing cached, or older than the window
StaleAtRead(category) ==
    \/ ~Truthy(Get(Read, category.field))
    \/ AgeAtRead(category.stamp) > category.window

Refetched(category) == Has(call.result.updates, category.field)

\* the store served an update that left the category out, and the record has
\* the category's value and timestamp as before
KeptInStore(category) ==
    (req.op = "update" /\ resp.status = 200 /\ ~Has(req.body, category.field))
        => /\ Get(Stored, category.field) = Get(pre, category.field)
           /\ StampOf(Stored, category.stamp) = StampOf(pre, category.stamp)

\* C12 as stated: a read of a record that exists refetches exactly the
\* categories among weather and news that are stale (nothing cached, or
\* now - lastUpdated > window), and a fresh category's stored value and
\* timestamp are unchanged.
C12_Original ==
    \A category \in Refetchable :
        /\ ReadEvaluated => (Refetched(category) <=> StaleAtRead(category))
        /\ KeptInStore(category)

Cached(category) == Truthy(Get(Read, category.field))

\* C13 as stated: at the exact boundary, now - lastUpdated = window, a cached
\* category is stale and the read refetches it; one millisecond more recent
\* it is not.
C13_Original ==
    ReadEvaluated =>
        \A category \in Refetchable :
            /\ (Cached(category) /\ AgeAtRead(category.stamp) = category.window)
                  => Refetched(category)
            /\ (Cached(category) /\ AgeAtRead(category.stamp) = category.window - 1)
                  => ~Refetched(category)

\* C13: up to and at the exact boundary, now - lastUpdated = window, a cached
\* category is fresh and the read leaves it out of its update; from one
\* millisecond past the boundary it is stale, and the read either names it in
\* its update with the time of the read as its timestamp, or a fetcher has
\* thrown and the read has answered 500 with nothing sent to the store.
C13_BoundaryIsFresh ==
    ReadEvaluated =>
        \A category \in Refetchable :
            /\ (Cached(category) /\ AgeAtRead(category.stamp) <= category.window)
                  => ~Refetched(category)
            /\ AgeAtRead(category.stamp) > category.window
                  => \/ /\ call.result.kind = "update"
                        /\ Refetched(category)
                        /\ StampOf(call.result.updates, category.stamp) = Num(call.args.at)
                     \/ /\ call.result.kind = "threw"
                        /\ out = WorkerError
                        /\ req.op = "get"

\* a read at the exact boundary of the weather window found nothing stale
C13_Witness ==
    /\ ReadEvaluated
    /\ AgeAtRead("weatherUpdated") = CACHE_TTL_WEATHER
    /\ Cached([field |-> "cachedWeather"])
    /\ call.result.kind = "fresh"
    /\ out.status = 200

\* a read one millisecond past the boundary of the news window refetched the news
C13_WitnessPast ==
    /\ ReadEvaluated
    /\ AgeAtRead("newsUpdated") = CACHE_TTL_NEWS + 1
    /\ Refetched([field |-> "cachedNews"])

\* the reader answered with the data of the record it read
AnsweredFromRecord == ReadEvaluated /\ call.result.kind \in {"fresh", "update"}

\* C14 as stated: the generated text is kept for 24 hours and the generated
\* images for 7 days; no read serves text older than 24 hours or images older
\* than 7 days without something having been generated again.
C14_Original ==
    AnsweredFromRecord =>
        \/ /\ AgeAtRead("textGenerated") <= CACHE_TTL_TEXT
           /\ AgeAtRead("imageGenerated") <= CACHE_TTL_IMAGE
        \/ generated > 0

\* C15 as stated: when the refetch of weather or news fails during a read,
\* the read still succeeds and serves what was cached before, and the stored
\* cachedWeather and cachedNews are not overwritten by a default or an empty
\* result.
C15_Original ==
    /\ ReadEvaluated => call.result.kind # "threw"
    /\ (req.op = "update" /\ resp.status = 200)
          => \A category \in Refetchable :
                DefaultOrEmpty(Get(Stored, category.field))
                    => DefaultOrEmpty(Get(pre, category.field))

\* the record a reader has just returned, after the update it sent
ReturnedAfterUpdate ==
    IF call.fn = "handleGetUser" THEN Get(out.body, "data") ELSE Get(out.body, "page")

ReadRefreshed ==
    /\ call.fn \in {"handleGetUser", "handlePortfolioPage"} /\ call.result.kind = "update"
    /\ req.op = "update" /\ resp.status = 200 /\ out.status = 200
    /\ \A p \in Procs : pc[p] = "idle"

\* C34 as stated: the record a read returns after it refreshed a category is
\* the record the store holds after the update; its timestamps still have
\* created, updated, textGenerated, imageGenerated and the timestamps of the
\* categories that were not refreshed
C34_Original ==
    ReadRefreshed
        => /\ ReturnedAfterUpdate = Stored
           /\ \A stamp \in {"created", "updated", "textGenerated", "imageGenerated",
                            "newsUpdated", "weatherUpdated"} :
                 Has(Get(ReturnedAfterUpdate, "timestamps"), stamp)

----------------------------------------------------------------------------
(* Claims about the fetchers and the generator, checked under FetchSpec *)

WeatherCalled == call.fn = "fetchWeather" /\ ~call.result.threw

Asked(source) == \E i \in 1..Len(call.result.queried) : call.result.queried[i] = source

PrimaryAnswered == Asked("xiaomi") /\ call.args.xiaomi = "ok"
SecondaryAnswered == Asked("wttr.in") /\ call.args.wttr = "ok"

\* C16: when the primary source throws or yields nothing and the secondary
\* answers, fetchWeather returns the secondary's artifact with source
\* 'wttr.in'; when both fail it returns the static default with source
\* 'fallback'; it never returns the default when a source it asked answered.
C16_WeatherFallbackOrder ==
    WeatherCalled =>
        /\ (~PrimaryAnswered /\ call.args.wttr = "ok")
              => /\ call.result.value = WeatherWttr
                 /\ SourceOf(call.result.value) = Str(<<"w", "t", "t", "r", ".", "i", "n">>)
        /\ (~PrimaryAnswered /\ call.args.wttr # "ok")
              => /\ call.result.value = WeatherFallback(call.args.city)
                 /\ SourceOf(call.result.value) = Str(<<"f", "a", "l", "l", "b", "a", "c", "k">>)
        /\ SourceOf(call.result.value) = Str(<<"f", "a", "l", "l", "b", "a", "c", "k">>)
              => ~PrimaryAnswered /\ ~SecondaryAnswered

\* the primary source was asked and threw, the secondary answered
C16_Witness ==
    /\ WeatherCalled
    /\ call.args.xiaomi = "network_error"
    /\ call.result.queried = <<"xiaomi", "wttr.in">>
    /\ SourceOf(call.result.value) = Str(<<"w", "t", "t", "r", ".", "i", "n">>)

\* C17 as stated: fetchWeather and fetchRealNews return a value, whatever the
\* stored city and interests and whatever the upstream sources answer.
C17_Original ==
    call.fn \in {"fetchWeather", "fetchRealNews"} => ~call.result.threw

\* C18: for a city classified as international fetchWeather never asks the
\* primary source: the one source it asks is wttr.in.
C18_InternationalSkipsPrimary ==
    (WeatherCalled /\ isInternational(Trim(ToLowerCase(call.args.city.val))))
        => ~Asked("xiaomi") /\ call.result.queried = <<"wttr.in">>

C18_Witness ==
    /\ WeatherCalled
    /\ call.args.city = Str(<<"T", "o", "k", "y", "o">>)
    /\ call.args.xiaomi = "ok"
    /\ call.result.queried = <<"wttr.in">>

HasRegionCode(city) ==
    \/ Trim(ToLowerCase(city)) \in DOMAIN XIAOMI_CITY_IDS
    \/ Trim(city) \in DOMAIN XIAOMI_CITY_IDS

\* C19 as stated: a city with a region code in the primary table, by exact or
\* by lower-cased match, is asked of the primary source first, and of the
\* secondary only when the primary failed or returned nothing.
C19_Original ==
    (WeatherCalled /\ HasRegionCode(call.args.city.val))
        => /\ call.result.queried # <<>>
           /\ call.result.queried[1] = "xiaomi"
           /\ Asked("wttr.in") => call.args.xiaomi # "ok"

DescriptionsCalled == call.fn = "generateAIProjectDescriptions"

OwnRepos == SelectSeq(call.args.repos, LAMBDA r : Get(r, "fork") # Bool(TRUE))

GaveText(answer) ==
    /\ answer.kind = "object"
    /\ Get(answer, "response").kind = "str"
    /\ Trim(Get(answer, "response").val) # <<>>

Templated(repo) ==
    IF Get(repo, "description").kind = "str"
    THEN Str(<<"U+2B50", " ">> \o Get(repo, "description").val)
    ELSE Str(<<"U+2B50", " ", "U+4F18", "U+8D28", "U+5F00", "U+6E90", "U+9879", "U+76EE">>)

\* C20: the batch answers one description per repository of the user's own;
\* a repository whose call failed or gave no text has the templated string
\* built from its description, and every other one the text generated for it.
C20_FailureIsPerItem ==
    DescriptionsCalled =>
        /\ call.result.kind = "object"
        /\ DOMAIN call.result.val
             = {KeyOf(Get(OwnRepos[i], "name").val) : i \in 1..Len(OwnRepos)}
        /\ \A i \in 1..Len(OwnRepos) :
              Get(call.result, KeyOf(Get(OwnRepos[i], "name").val))
                = IF GaveText(call.args.answers[i])
                  THEN Str(Trim(Get(call.args.answers[i], "response").val))
                  ELSE Templated(OwnRepos[i])

\* the first call threw, the second gave text
C20_Witness ==
    /\ DescriptionsCalled
    /\ call.args.answers = <<Null, Obj([response |-> Str(<<"g", "2">>)])>>
    /\ Get(call.result, "r1") = Str(<<"U+2B50", " ", "d", "1">>)
    /\ Get(call.result, "r2") = Str(<<"g", "2">>)

\* the items of list at the positions of the set at, in order, from position i on
RECURSIVE PickFrom(_, _, _)
PickFrom(list, at, i) ==
    IF i > Len(list) THEN <<>>
    ELSE (IF i \in at THEN <<list[i]>> ELSE <<>>) \o PickFrom(list, at, i + 1)

IsSubsequence(sub, list) == \E at \in SUBSET (1..Len(list)) : sub = PickFrom(list, at, 1)

NewsKeys(list) == {NewsKey(list[i]) : i \in 1..Len(list)}

FirstWithKey(list, key) ==
    list[CHOOSE i \in 1..Len(list) :
            NewsKey(list[i]) = key /\ \A j \in 1..(i - 1) : NewsKey(list[j]) # key]

DeduplicateCalled == call.fn = "deduplicateNews"

\* C26: deduplicateNews of a list whose items have titles returns a
\* subsequence of the list in which no two items share a key (the lower-cased
\* first 50 characters of the title), every key of the list appears, each by
\* the first item of the list that has it, and deduplicating the result again
\* changes nothing; it raises exactly when an item has no title to take the
\* key from.
C26_DedupKeepsFirstPerKey ==
    DeduplicateCalled =>
        LET news == call.args.news
            unique == call.result.value
        IN /\ call.result.threw
                <=> \E i \in 1..Len(news) : Get(news[i], "title").kind # "str"
           /\ ~call.result.threw
                => /\ IsSubsequence(unique, news)
                   /\ \A i, j \in 1..Len(unique) :
                         i # j => NewsKey(unique[i]) # NewsKey(unique[j])
                   /\ NewsKeys(unique) = NewsKeys(news)
                   /\ \A i \in 1..Len(unique) :
                         unique[i] = FirstWithKey(news, NewsKey(unique[i]))
                   /\ deduplicateNews(unique) = [threw |-> FALSE, value |-> unique]

\* a list of three was deduplicated to two: the second title is the first in
\* capitals, the third shares its first 50 characters with none
C26_Witness ==
    /\ DeduplicateCalled
    /\ ~call.result.threw
    /\ call.args.news = <<Story(<<"n", "1">>), Story(<<"N", "1">>), Story(LongTitle("a"))>>
    /\ call.result.value = <<Story(<<"n", "1">>), Story(LongTitle("a"))>>

\* the interests each source is invoked for
NewsSourceTags ==
    [hn |-> {<<"T", "e", "c", "h">>, <<"A", "I">>, <<"S", "t", "a", "r", "t", "u", "p">>},
     dev |-> {<<"T", "e", "c", "h">>, <<"D", "e", "s", "i", "g", "n">>, <<"A", "I">>},
     gh |-> {<<"T", "e", "c", "h">>},
     fin |-> {<<"F", "i", "n", "a", "n", "c", "e">>}]
NewsSourceOrder == <<"hn", "dev", "gh", "fin">>

RealNewsCalled == call.fn = "fetchRealNews"

\* the source is invoked: the interests intersect its tags
SourceInvoked(source) ==
    /\ call.args.interests.kind = "array"
    /\ SomeInterest(call.args.interests, NewsSourceTags[source])

\* what a source returned to the aggregation
SourceResult(source) ==
    CASE source = "hn" -> fetchHackerNews(call.args.hn)
      [] source = "dev" -> fetchDevToNews(call.args.dev)
      [] source = "gh" -> fetchGitHubTrending(call.args.gh)
      [] source = "fin" -> fetchFinanceNews(call.args.fin)

RECURSIVE InvokedResults(_)
InvokedResults(k) ==
    IF k > Len(NewsSourceOrder) THEN <<>>
    ELSE (IF SourceInvoked(NewsSourceOrder[k]) THEN SourceResult(NewsSourceOrder[k]) ELSE <<>>)
         \o InvokedResults(k + 1)

FirstEight(list) == SubSeq(list, 1, IF Len(list) < 8 THEN Len(list) ELSE 8)

\* C27 as stated: the aggregation returns the deduplicated concatenation of
\* the results of the sources whose tags the interests intersect, in the
\* order of invocation, cut to eight items; the empty list when no source
\* matches
C27_Original ==
    RealNewsCalled =>
        /\ ~call.result.threw
        /\ call.result.value = Arr(FirstEight(deduplicateNews(InvokedResults(1)).value))
        /\ (\A source \in DOMAIN NewsSourceTags : ~SourceInvoked(source))
              => call.result.value = Arr(<<>>)

\* the source's request or the parsing of its answer failed
SourceFailed(source) == call.args[source] = Null

\* what the invoked sources that answered returned, in the order of invocation
RECURSIVE AnsweredResults(_)
AnsweredResults(k) ==
    IF k > Len(NewsSourceOrder) THEN <<>>
    ELSE (IF SourceInvoked(NewsSourceOrder[k]) /\ ~SourceFailed(NewsSourceOrder[k])
          THEN SourceResult(NewsSourceOrder[k]) ELSE <<>>)
         \o AnsweredResults(k + 1)

RECURSIVE ResultsBefore(_)
ResultsBefore(k) ==
    IF k <= 1 THEN <<>>
    ELSE ResultsBefore(k - 1)
         \o (IF SourceInvoked(NewsSourceOrder[k - 1]) THEN SourceResult(NewsSourceOrder[k - 1]) ELSE <<>>)

\* the k-th source was invoked and returned an item whose key no item of a
\* source invoked before it has
BroughtNewKey(k) ==
    /\ SourceInvoked(NewsSourceOrder[k])
    /\ \E i \in 1..Len(SourceResult(NewsSourceOrder[k])) :
          NewsKey(SourceResult(NewsSourceOrder[k])[i]) \notin NewsKeys(ResultsBefore(k))

SourceName(source) ==
    CASE source = "hn" -> HACKER_NEWS
      [] source = "dev" -> DEV_TO
      [] source = "gh" -> GITHUB_TRENDING
      [] source = "fin" -> YAHOO_FINANCE

\* C40 as stated: every source that was invoked and returned an item with a
\* new key has an item in the list the aggregation returns
C40_Original ==
    (RealNewsCalled /\ ~call.result.threw)
        => \A k \in 1..Len(NewsSourceOrder) :
              BroughtNewKey(k)
                 => \E j \in 1..Len(call.result.value.val) :
                       Get(call.result.value.val[j], "source") = SourceName(NewsSourceOrder[k])

----------------------------------------------------------------------------
(* Claims about requests that overlap at one object, checked under ObjectSpec *)

\* the updates of the object that have been answered
UpdatesDone(id) == {p \in Procs : pc[p] = "update_done" /\ loc[p].id = id}

\* what the object stored before any of them
RecordsAtStart == [id \in DoNames |-> GeneratedRecord(CHOOSE u \in Usernames : ToLowerCase(u) = id)]
RecordAtStart(id) == RecordsAtStart[id]

\* the update of slot p applied to a record, on its own, at the time it was applied
MergedOnItsOwn(record, p) == DoFetch("update", record, loc[p].updates, loc[p].at).data

RECURSIVE MergedInOrder(_, _)
MergedInOrder(record, order) ==
    IF order = <<>> THEN record
    ELSE MergedInOrder(MergedOnItsOwn(record, Head(order)), Tail(order))

OrdersOf(slots) ==
    {order \in [1..Cardinality(slots) -> slots] :
        \A i, j \in 1..Cardinality(slots) : i # j => order[i] # order[j]}

\* the order in which the updates were answered
OrderAnswered(slots) == CHOOSE order \in OrdersOf(slots) :
    \A i, j \in 1..Len(order) : i < j => loc[order[i]].nth < loc[order[j]].nth

GetServed == req'.op = "get" /\ <<req, resp>>' # <<req, resp>>

\* C30: the updates of one identity are applied one at a time.  What the
\* object stores is the updates answered so far applied one after the other
\* in some order, each on the result of the one before; a field that only
\* one of them writes holds what it wrote; and a get served after an update
\* was answered returns the record with that update applied.
C30_UpdatesApplyOneAtATime ==
    /\ [](\A id \in DoNames :
            /\ \E order \in OrdersOf(UpdatesDone(id)) :
                  storage[id] = MergedInOrder(RecordAtStart(id), order)
            /\ \A p \in UpdatesDone(id) : \A key \in DOMAIN loc[p].updates.val :
                  (/\ loc[p].status = 200
                   /\ key # "timestamps"
                   /\ \A q \in UpdatesDone(id) \ {p} : key \notin DOMAIN loc[q].updates.val)
                      => Carries(Get(storage[id], key), Get(loc[p].updates, key)))
    /\ [][GetServed =>
            resp' = getData(MergedInOrder(RecordAtStart(req'.id),
                                          OrderAnswered(UpdatesDone(req'.id)))).resp]_vars

\* two updates of one record overlap, one writes the city and the other the
\* weather; both are answered, the record holds both, and a get returns it
C30_Witness ==
    \E id \in DoNames :
        /\ UpdatesDone(id) = Procs
        /\ \E p \in Procs : loc[p].overlaps
        /\ \A p \in Procs : loc[p].status = 200
        /\ {loc[p].updates : p \in Procs}
              = {Obj([city |-> CityNY]), Obj([cachedWeather |-> Obj([temp |-> Num(30)])])}
        /\ Get(storage[id], "city") = CityNY
        /\ Get(Get(storage[id], "cachedWeather"), "temp") = Num(30)
        /\ req.id = id /\ req.op = "get" /\ Get(resp.body, "data") = storage[id]

----------------------------------------------------------------------------
(* Claims about slugs and aliases, checked under AliasSpec *)

\* a reader has just answered the request for this slug
AnsweredFor(fn, slug) ==
    call' # call /\ call'.fn = fn /\ call'.args.slug = slug

\* the reader found the record of this object
ResolvedTo(id) ==
    /\ call'.result.kind # "not_found"
    /\ call'.args.userData = storage[id]
    /\ out'.status = 200

\* C29 as stated: once a page is generated for a user name, with or without
\* a '-', GET /api/user/<slug> and GET /p/<slug> with the slug of its record
\* find that record, and GET /@<user name> serves its page
C29_Original ==
    [][\A id \in DOMAIN storage :
          Truthy(storage[id]) =>
              LET slug == Get(storage[id], "slug").val
                  username == Get(storage[id], "username").val
              IN /\ AnsweredFor("handleGetUser", slug) => ResolvedTo(id)
                 /\ AnsweredFor("handlePortfolioPage", slug) => ResolvedTo(id)
                 /\ AnsweredFor("handlePortfolioPage", username) => ResolvedTo(id)]_vars

----------------------------------------------------------------------------
(* Claims about the image runs, checked under ImageSpec *)

\* C33 as stated: no put of the bucket is given a key that was put before,
\* whichever runs overlap and whatever the clock reads
C33_Original ==
    call.fn = "R2_BUCKET.put" => ~call.result.replaced

----------------------------------------------------------------------------
(* Claims about requests that overlap on a stored record, checked under RaceSpec *)

\* a step in which handleGetUser or handlePortfolioPage answers with the record
ReadAnswers ==
    /\ out'.status = 200
    /\ DOMAIN out'.body.val \in {{"data"}, {"page"}}
    /\ \E p \in Procs :
          /\ pc[p] \in {"idle", "read_update", "page_update"}
          /\ pc'[p] = "idle"
          /\ pc[p] = "idle" => started' = started + 1

\* the record that answer carries
ReadAnswer ==
    IF "data" \in DOMAIN out'.body.val THEN Get(out'.body, "data") ELSE Get(out'.body, "page")

\* C39 as stated: the weather a read serves, and the weather stored when it
\* has answered, is the weather fetched for the city the record then has
C39_Original ==
    [][ReadAnswers
          => /\ Get(ReadAnswer, "cachedWeather")
                   = WeatherOf(Get(ReadAnswer, "city"), FetchedAll).value
             /\ Get(storage'[req'.id], "cachedWeather")
                   = WeatherOf(Get(storage'[req'.id], "city"), FetchedAll).value]_vars

\* the time a record has under timestamps for one category
Stamp(record, field) == Get(Get(record, "timestamps"), field).val

\* C36 as stated: no /update of a reader or of a refresh takes weatherUpdated,
\* newsUpdated or textGenerated of a stored record back to an earlier time
C36_Original ==
    [][\A id \in DoNames :
          (req'.op = "update" /\ resp'.status = 200 /\ req'.id = id /\ ~Has(req'.body, "city"))
              => \A field \in {"weatherUpdated", "newsUpdated", "textGenerated"} :
                    Stamp(storage'[id], field) >= Stamp(storage[id], field)]_vars

\* the stored bookmarks are what a replacement that was answered 200 left
HoldsReplacement(record) ==
    /\ Truthy(record)
    /\ \E request \in BookmarkRequests, t \in ClockReadings :
          Get(record, "bookmarks")
              = Get(updateBookmarks(record, Obj([bookmarks |-> request.bookmarks]), t).data,
                    "bookmarks")

\* C37 as stated: once a replacement of the bookmarks has been answered 200,
\* a step that is neither another replacement nor a deletion leaves the stored
\* bookmarks as the replacement left them
C37_Original ==
    [][\A id \in DoNames :
          (HoldsReplacement(storage[id])
             /\ ~(req'.id = id /\ req'.op \in {"update-bookmarks", "delete"}))
              => Get(storage'[id], "bookmarks") = Get(storage[id], "bookmarks")]_vars

\* the positions of a handler that loaded a record and has yet to write
LoadedLabels == {"gen_update", "read_update", "page_update", "refresh_update"}

\* C38: a record that has been deleted comes back only by the /set of a
\* generation that had found no record; the /update of a reader, of a refresh
\* or of a generate that had loaded the record, and a replacement of the
\* bookmarks, are answered 404 when they arrive after the deletion and leave
\* the store without a record.
C38_DeletedStaysDeleted ==
    [][\A id \in DoNames :
          storage[id] = Undefined
              => /\ storage'[id] # Undefined
                      => /\ req'.op = "set"
                         /\ \E p \in Procs : pc[p] = "gen_set" /\ pc'[p] = "idle"
                 /\ \A p \in Procs :
                       (pc[p] \in LoadedLabels /\ pc'[p] # pc[p])
                           => storage' = storage /\ resp'.status = 404
                 /\ (req'.op = "update-bookmarks" /\ started' = started + 1)
                       => storage' = storage /\ resp'.status = 404]_vars

\* a reader loaded the record, the record was deleted, and the reader's
\* /update has been answered 404 with no record stored
C38_Witness ==
    /\ call.fn \in {"handleGetUser", "handlePortfolioPage"} /\ call.result.kind = "update"
    /\ req.op = "update" /\ resp.status = 404
    /\ pre = Undefined /\ Stored = Undefined
    /\ \A p \in Procs : pc[p] = "idle"

====
